---- MODULE Spec2Model ----
(***************************************************************************)
(* A model of hpke-rs: the Hpke configuration (setup_sender,               *)
(* setup_receiver, key_schedule, single-shot wrappers), the Context state  *)
(* machine (seal, open, export, compute_nonce, increment_seq) and the      *)
(* libcrux provider's AEAD.                                                *)
(*                                                                         *)
(* Cryptographic primitives are symbolic: the output of a primitive is a   *)
(* record of its inputs, so two outputs are equal exactly when they were   *)
(* computed from equal inputs.  Byte strings that the code inspects (psk,  *)
(* psk_id, info, aad, plaintext, the sequence number) are sequences of     *)
(* bytes.  The u32 sequence number is its 4 big-endian bytes, because the  *)
(* values near u32::MAX do not fit the model checker's integers.           *)
(*                                                                         *)
(* Specifications: Spec (sessions and single-shot calls from Hpke::new on), *)
(* SpecPsk (key_schedule and the setups with every shape of psk and        *)
(* psk_id), SpecSeq (the message counter of two matching Contexts, up to   *)
(* and past u32::MAX), SpecNet (setup_receiver on any encapsulation),      *)
(* SpecKeys (== on private keys), SpecDrop (drop and Debug of keys and     *)
(* Contexts), SpecIds (identifier conversions), SpecClone (Hpke::clone and *)
(* the two PRNGs), SpecPrng (two callers drawing from one PRNG), SpecAead  *)
(* (matching Contexts of every AEAD identifier, Aes128Gcm included) and    *)
(* SpecPool (the byte pool of the deterministic test PRNG).                *)
(***************************************************************************)
EXTENDS Integers, Sequences, FiniteSets, TLC

\* ---------------------------------------------------------------- bounds
\* ciphertexts kept in flight between sender and receiver (the oldest is dropped)
MaxWire == 1
\* seals made on a Context from a counter value of zero
MaxSeals == 2
\* draws made on the sender configuration's PRNG
MaxDraws == 1

\* ------------------------------------------------------- program constants
\* Poly1305 tag length used by aead_seal / aead_open
TagLen == 16
\* minimum PSK length accepted by verify_psk_inputs
MinPskLen == 32
\* width in bytes of the u32 sequence number (to_be_bytes)
SeqLen == 4
\* width in bytes of the u128 the limit comparison is made in
U128Len == 16

Modes == {"Base", "Psk", "Auth", "AuthPsk"}
Kems  == {"DhKem25519", "XWingDraft06"}
Kdfs  == {"HkdfSha256"}
Aeads == {"ChaCha20Poly1305", "HpkeExport"}

\* Mode as u8
ModeCode(m) ==
  CASE m = "Base" -> 0 [] m = "Psk" -> 1 [] m = "Auth" -> 2 [] m = "AuthPsk" -> 3

\* KemAlgorithm as u16
KemCode(k) ==
  CASE k = "DhKemP256" -> 16 [] k = "DhKemP384" -> 17 [] k = "DhKemP521" -> 18
    [] k = "DhKemK256" -> 22 [] k = "DhKem25519" -> 32 [] k = "DhKem448" -> 33
    [] k = "XWingDraft06" -> 77

\* KdfAlgorithm as u16
KdfCode(k) ==
  CASE k = "HkdfSha256" -> 1 [] k = "HkdfSha384" -> 2 [] k = "HkdfSha512" -> 3

\* AeadAlgorithm as u16
AeadCode(a) ==
  CASE a = "Aes128Gcm" -> 1 [] a = "Aes256Gcm" -> 2 [] a = "ChaCha20Poly1305" -> 3
    [] a = "HpkeExport" -> 65535

\* AeadAlgorithm::key_length
key_length(a) ==
  CASE a = "Aes128Gcm" -> 16 [] a = "ChaCha20Poly1305" -> 32 [] a = "HpkeExport" -> 0

\* AeadAlgorithm::nonce_length
nonce_length(a) ==
  CASE a = "Aes128Gcm" -> 12 [] a = "ChaCha20Poly1305" -> 12 [] a = "HpkeExport" -> 0

\* HpkeCrypto::kdf_digest_length
kdf_digest_length(k) ==
  CASE k = "HkdfSha256" -> 32 [] k = "HkdfSha512" -> 64

\* ------------------------------------------------------------ byte strings
Rep(b, n) == [i \in 1..n |-> b]

\* every byte from position i on is 0xFF
AllFF(b, i) == \A j \in i..Len(b) : b[j] = 255

\* the fixed-width big-endian number b plus one, wrapping to zero at the maximum
IncBytes(b) == [i \in 1..Len(b) |-> IF AllFF(b, i + 1) THEN (b[i] + 1) % 256 ELSE b[i]]

\* a >= b for big-endian numbers of the same width
BytesGE(a, b) ==
  \/ a = b
  \/ \E i \in 1..Len(a) : a[i] > b[i] /\ \A j \in 1..(i - 1) : a[j] = b[j]

\* u128::from(sequence_number)
U128From(seq) == Rep(0, U128Len - SeqLen) \o seq

\* (1u128 << (8 * nn)) - 1
LimitFor(nn) == Rep(0, U128Len - nn) \o Rep(255, nn)

Zero32 == Rep(0, SeqLen)
U32Max == Rep(255, SeqLen)

\* ------------------------------------------------------------- results
Ok(v) == [ok |-> TRUE, v |-> v, e |-> "Ok"]
Err(e) == [ok |-> FALSE, v |-> <<>>, e |-> e]

\* Option<T>: None is <<>>, Some(x) is <<x>>
None == <<>>
Some(x) == <<x>>
unwrap_or_default(o) == IF o = None THEN <<>> ELSE o[1]

\* a faulty conversion: an unsupported KEM operation is reported as a crypto error
FromCryptoError_unsupported(e) ==
  CASE e = "AeadOpenError" -> "OpenError"
    [] e \in {"AeadInvalidNonce", "AeadInvalidCiphertext"} -> "InvalidInput"
    [] e = "UnknownAeadAlgorithm" -> "UnknownMode"
    [] e \in {"CryptoLibraryError", "HpkeInvalidOutputLength", "UnknownKdfAlgorithm",
              "KemInvalidSecretKey", "KemInvalidPublicKey", "UnknownKemAlgorithm",
              "UnsupportedKemOperation"}
         -> "CryptoError"
    [] e = "InsufficientRandomness" -> "InsufficientRandomness"
    [] e = "KemInvalidCiphertext" -> "InvalidInput"

\* From<hpke_rs_crypto::error::Error> for HpkeError
FromCryptoError(e) ==
  CASE e = "AeadOpenError" -> "OpenError"
    [] e \in {"AeadInvalidNonce", "AeadInvalidCiphertext"} -> "InvalidInput"
    [] e = "UnknownAeadAlgorithm" -> "UnknownMode"
    [] e \in {"CryptoLibraryError", "HpkeInvalidOutputLength", "UnknownKdfAlgorithm",
              "KemInvalidSecretKey", "KemInvalidPublicKey", "UnknownKemAlgorithm"}
         -> "CryptoError"
    [] e = "InsufficientRandomness" -> "InsufficientRandomness"
    [] e = "UnsupportedKemOperation" -> "InvalidConfig"
    [] e = "KemInvalidCiphertext" -> "InvalidInput"

\* ------------------------------------------------------------- keys
\* A key or an encapsulation is [k, id, to, wf]: its kind, the secret it belongs to,
\* for a KEM ciphertext the key pair it was encapsulated to, and whether its
\* encoding is well formed.
KeyIds == {1, 2}
Sk(i) == [k |-> "sk", id |-> i, to |-> 0, wf |-> TRUE]
Pk(i) == [k |-> "pk", id |-> i, to |-> 0, wf |-> TRUE]

\* an encoding cut by one byte, and the test for an encoding of the wrong length
Cut(x) == [x EXCEPT !.k = "cut", !.wf = FALSE]
WrongLength(x) == x.k = "cut"

\* the ephemeral secret derived from the r-th draw of the PRNG
EphId(r) == 100 + r

\* HpkeCrypto::secret_to_public
secret_to_public(sk) == Pk(sk.id)

\* ---------------------------------------------------------- provider KDF
\* HpkeLibcrux::kdf_extract
kdf_extract(alg, salt, ikm) == [f |-> "extract", alg |-> alg, salt |-> salt, ikm |-> ikm]

\* HpkeLibcrux::kdf_expand: HKDF-Expand yields at most 255 blocks
kdf_expand(alg, prk, info, output_size) ==
  IF output_size > 255 * kdf_digest_length(alg)
  THEN Err("CryptoLibraryError")
  ELSE Ok([f |-> "expand", alg |-> alg, prk |-> prk, info |-> info, len |-> output_size])

\* kdf::labeled_extract
labeled_extract(alg, salt, suite_id, label, ikm) ==
  kdf_extract(alg, salt, <<"HPKE-v1", suite_id, label, ikm>>)

\* kdf::labeled_expand
labeled_expand(alg, prk, suite_id, label, info, len) ==
  kdf_expand(alg, prk, <<len, "HPKE-v1", suite_id, label, info>>, len)

\* ------------------------------------------------------------------ KEM
\* suite_id of the KEM-internal derivations: "KEM" || I2OSP(kem_id, 2)
kem_suite_id(kem) == <<"KEM", KemCode(kem)>>

\* KemAlgorithm::shared_secret_len
shared_secret_len(kem) ==
  CASE kem = "DhKem25519" -> 32 [] kem = "XWingDraft06" -> 32

\* From<KemAlgorithm> for KdfAlgorithm
kem_kdf(kem) ==
  CASE kem = "DhKem25519" -> "HkdfSha256" [] kem = "XWingDraft06" -> "HkdfSha512"

\* HpkeLibcrux::dh: the X25519 shared point of two key pairs is the same whichever
\* side's secret is used
dh(kem, pk, sk) ==
  IF kem # "DhKem25519" THEN Err("UnknownKemAlgorithm")
  ELSE IF ~pk.wf \/ ~sk.wf THEN Err("CryptoLibraryError")
  ELSE Ok([dh |-> {sk.id, pk.id}])

\* dh_kem::extract_and_expand
extract_and_expand(kem, dhs, kem_context) ==
  labeled_expand(kem_kdf(kem),
                 labeled_extract(kem_kdf(kem), <<>>, kem_suite_id(kem), "eae_prk", dhs),
                 kem_suite_id(kem), "shared_secret", kem_context, shared_secret_len(kem))

\* the result of a KEM operation: shared secret zz and encapsulation enc
KemOk(zz, enc) == [ok |-> TRUE, e |-> "Ok", zz |-> zz, enc |-> enc]
KemErr(e) == [ok |-> FALSE, e |-> e, zz |-> <<>>, enc |-> <<>>]

\* HpkeLibcrux::kem_encaps
kem_encaps(kem, pk_r, r) ==
  IF ~pk_r.wf THEN KemErr("KemInvalidPublicKey")
  ELSE KemOk([xw |-> pk_r.id, r |-> EphId(r)],
             [k |-> "ct", id |-> EphId(r), to |-> pk_r.id, wf |-> TRUE])

\* HpkeLibcrux::kem_decaps; a ciphertext for another key decapsulates to an
\* unrelated secret (implicit rejection)
kem_decaps(kem, ct, sk_r) ==
  IF ~ct.wf THEN KemErr("AeadInvalidCiphertext")
  ELSE IF ~sk_r.wf THEN KemErr("KemInvalidSecretKey")
  ELSE IF ct.to = sk_r.id THEN KemOk([xw |-> sk_r.id, r |-> ct.id], ct)
  ELSE KemOk([xw |-> 0 - sk_r.id, r |-> ct.id], ct)

\* dh_kem::encaps
dh_encaps(kem, pk_r, r) ==
  LET sk_e == Sk(EphId(r))
      pk_e == secret_to_public(sk_e)
      d == dh(kem, pk_r, sk_e)
      zz == extract_and_expand(kem, d.v, <<pk_e, pk_r>>)
  IN IF WrongLength(pk_r) THEN KemErr("KemInvalidPublicKey")
     ELSE IF ~d.ok THEN KemErr(d.e)
     ELSE IF ~zz.ok THEN KemErr(zz.e)
     ELSE KemOk(zz.v, pk_e)

\* dh_kem::decaps
dh_decaps(kem, enc, sk_r) ==
  LET d == dh(kem, enc, sk_r)
      zz == extract_and_expand(kem, d.v, <<enc, secret_to_public(sk_r)>>)
  IN IF WrongLength(enc) THEN KemErr("KemInvalidPublicKey")
     ELSE IF ~d.ok THEN KemErr(d.e)
     ELSE IF ~zz.ok THEN KemErr(zz.e)
     ELSE KemOk(zz.v, enc)

\* dh_kem::auth_encaps
dh_auth_encaps(kem, pk_r, sk_s, r) ==
  LET sk_e == Sk(EphId(r))
      pk_e == secret_to_public(sk_e)
      d1 == dh(kem, pk_r, sk_e)
      d2 == dh(kem, pk_r, sk_s)
      zz == extract_and_expand(kem, <<d1.v, d2.v>>, <<pk_e, pk_r, secret_to_public(sk_s)>>)
  IN IF WrongLength(pk_r) THEN KemErr("KemInvalidPublicKey")
     ELSE IF ~d1.ok THEN KemErr(d1.e)
     ELSE IF ~d2.ok THEN KemErr(d2.e)
     ELSE IF ~zz.ok THEN KemErr(zz.e)
     ELSE KemOk(zz.v, pk_e)

\* dh_kem::auth_decaps
dh_auth_decaps(kem, enc, sk_r, pk_s) ==
  LET d1 == dh(kem, enc, sk_r)
      d2 == dh(kem, pk_s, sk_r)
      zz == extract_and_expand(kem, <<d1.v, d2.v>>, <<enc, secret_to_public(sk_r), pk_s>>)
  IN IF WrongLength(enc) \/ WrongLength(pk_s) THEN KemErr("KemInvalidPublicKey")
     ELSE IF ~d1.ok THEN KemErr(d1.e)
     ELSE IF ~d2.ok THEN KemErr(d2.e)
     ELSE IF ~zz.ok THEN KemErr(zz.e)
     ELSE KemOk(zz.v, enc)

\* kem::encaps
encaps(kem, pk_r, r) ==
  IF kem = "XWingDraft06" THEN kem_encaps(kem, pk_r, r) ELSE dh_encaps(kem, pk_r, r)

\* kem::decaps
decaps(kem, enc, sk_r) ==
  IF kem = "XWingDraft06" THEN kem_decaps(kem, enc, sk_r) ELSE dh_decaps(kem, enc, sk_r)

\* kem::auth_encaps
auth_encaps(kem, pk_r, sk_s, r) ==
  IF kem = "XWingDraft06" THEN KemErr("UnsupportedKemOperation")
  ELSE dh_auth_encaps(kem, pk_r, sk_s, r)

\* kem::auth_decaps
auth_decaps(kem, enc, sk_r, pk_s) ==
  IF kem = "XWingDraft06" THEN KemErr("UnsupportedKemOperation")
  ELSE dh_auth_decaps(kem, enc, sk_r, pk_s)

\* ----------------------------------------------------------------- AEAD
\* the result of an AEAD call; mismatch says that tag verification failed
AeadOk(v) == [ok |-> TRUE, e |-> "Ok", v |-> v, mismatch |-> FALSE]
AeadErr(e, mm) == [ok |-> FALSE, e |-> e, v |-> <<>>, mismatch |-> mm]

\* a ChaCha20-Poly1305 ciphertext: what it was sealed under, and whether its bytes
\* were altered since
Sealed(key, nonce, aad, msg) ==
  [key |-> key, nonce |-> nonce, aad |-> aad, msg |-> msg,
   tampered |-> FALSE, len |-> Len(msg) + TagLen]

\* HpkeLibcrux::aead_seal
aead_seal(alg, key, nonce, aad, msg) ==
  IF alg # "ChaCha20Poly1305" THEN AeadErr("UnknownAeadAlgorithm", FALSE)
  ELSE IF Len(nonce.mask) # 12 THEN AeadErr("AeadInvalidNonce", FALSE)
  ELSE IF key.len # 32 THEN AeadErr("CryptoLibraryError", FALSE)
  ELSE AeadOk(Sealed(key, nonce, aad, msg))

\* HpkeLibcrux::aead_open
aead_open(alg, key, nonce, aad, cipher_txt) ==
  IF alg # "ChaCha20Poly1305" THEN AeadErr("UnknownAeadAlgorithm", FALSE)
  ELSE IF cipher_txt.len < 16 THEN AeadErr("AeadInvalidCiphertext", FALSE)
  ELSE IF Len(nonce.mask) # 12 THEN AeadErr("AeadInvalidNonce", FALSE)
  ELSE IF key.len # 32 THEN AeadErr("CryptoLibraryError", FALSE)
  ELSE IF \/ cipher_txt.tampered
          \/ cipher_txt.key # key
          \/ cipher_txt.nonce # nonce
          \/ cipher_txt.aad # aad
       THEN AeadErr("CryptoLibraryError", TRUE)
  ELSE AeadOk(cipher_txt.msg)

\* --------------------------------------------------------- key schedule
\* a faulty verify_psk_inputs: the mode checks come before the consistency check
verify_psk_inputs_reordered(mode, psk, psk_id) ==
  LET got_psk == psk # <<>>
      got_psk_id == psk_id # <<>>
  IN IF got_psk /\ mode \in {"Base", "Auth"} THEN "UnnecessaryPsk"
     ELSE IF ~got_psk /\ mode \in {"Psk", "AuthPsk"} THEN "MissingPsk"
     ELSE IF (got_psk /\ ~got_psk_id) \/ (~got_psk /\ got_psk_id) THEN "InconsistentPsk"
     ELSE IF mode \in {"Psk", "AuthPsk"} /\ Len(psk) < MinPskLen THEN "InsecurePsk"
     ELSE "Ok"

\* a faulty verify_psk_inputs: the length test is off by one
verify_psk_inputs_le(mode, psk, psk_id) ==
  LET got_psk == psk # <<>>
      got_psk_id == psk_id # <<>>
  IN IF (got_psk /\ ~got_psk_id) \/ (~got_psk /\ got_psk_id) THEN "InconsistentPsk"
     ELSE IF got_psk /\ mode \in {"Base", "Auth"} THEN "UnnecessaryPsk"
     ELSE IF ~got_psk /\ mode \in {"Psk", "AuthPsk"} THEN "MissingPsk"
     ELSE IF mode \in {"Psk", "AuthPsk"} /\ Len(psk) <= MinPskLen THEN "InsecurePsk"
     ELSE "Ok"

\* Hpke::verify_psk_inputs
verify_psk_inputs(mode, psk, psk_id) ==
  LET got_psk == psk # <<>>
      got_psk_id == psk_id # <<>>
  IN IF (got_psk /\ ~got_psk_id) \/ (~got_psk /\ got_psk_id) THEN "InconsistentPsk"
     ELSE IF got_psk /\ mode \in {"Base", "Auth"} THEN "UnnecessaryPsk"
     ELSE IF ~got_psk /\ mode \in {"Psk", "AuthPsk"} THEN "MissingPsk"
     ELSE IF mode \in {"Psk", "AuthPsk"} /\ Len(psk) < MinPskLen THEN "InsecurePsk"
     ELSE "Ok"

\* Hpke::ciphersuite
ciphersuite(hpke) ==
  <<"HPKE", KemCode(hpke.kem_id), KdfCode(hpke.kdf_id), AeadCode(hpke.aead_id)>>

\* Hpke::key_schedule_context
key_schedule_context(hpke, info, psk_id, suite_id) ==
  <<ModeCode(hpke.mode),
    labeled_extract(hpke.kdf_id, <<0>>, suite_id, "psk_id_hash", psk_id),
    labeled_extract(hpke.kdf_id, <<0>>, suite_id, "info_hash", info)>>

\* the result of an operation that makes a Context; ks says that key_schedule was
\* called
CtxOk(ctx) == [ok |-> TRUE, e |-> "Ok", ctx |-> Some(ctx), ks |-> TRUE]
CtxErr(e) == [ok |-> FALSE, e |-> e, ctx |-> None, ks |-> TRUE]
CtxSkip(e) == [ok |-> FALSE, e |-> e, ctx |-> None, ks |-> FALSE]

\* a faulty Hpke::key_schedule: the key is expanded to the nonce length and the base
\* nonce to the key length
key_schedule_swapped_lengths(hpke, shared_secret, info, psk, psk_id) ==
  LET v == verify_psk_inputs(hpke.mode, psk, psk_id)
      suite_id == ciphersuite(hpke)
      ksc == key_schedule_context(hpke, info, psk_id, suite_id)
      secret == labeled_extract(hpke.kdf_id, shared_secret, suite_id, "secret", psk)
      key == labeled_expand(hpke.kdf_id, secret, suite_id, "key", ksc,
                            nonce_length(hpke.aead_id))
      base_nonce == labeled_expand(hpke.kdf_id, secret, suite_id, "base_nonce", ksc,
                                   key_length(hpke.aead_id))
      exporter_secret == labeled_expand(hpke.kdf_id, secret, suite_id, "exp", ksc,
                                        kdf_digest_length(hpke.kdf_id))
  IN IF v # "Ok" THEN CtxErr(v)
     ELSE IF ~key.ok \/ ~base_nonce.ok \/ ~exporter_secret.ok THEN CtxErr("CryptoError")
     ELSE CtxOk([key |-> key.v, nonce |-> base_nonce.v,
                 exporter_secret |-> exporter_secret.v,
                 sequence_number |-> Zero32, hpke |-> hpke])

\* Hpke::key_schedule
key_schedule(hpke, shared_secret, info, psk, psk_id) ==
  LET v == verify_psk_inputs(hpke.mode, psk, psk_id)
      suite_id == ciphersuite(hpke)
      ksc == key_schedule_context(hpke, info, psk_id, suite_id)
      secret == labeled_extract(hpke.kdf_id, shared_secret, suite_id, "secret", psk)
      key == labeled_expand(hpke.kdf_id, secret, suite_id, "key", ksc,
                            key_length(hpke.aead_id))
      base_nonce == labeled_expand(hpke.kdf_id, secret, suite_id, "base_nonce", ksc,
                                   nonce_length(hpke.aead_id))
      exporter_secret == labeled_expand(hpke.kdf_id, secret, suite_id, "exp", ksc,
                                        kdf_digest_length(hpke.kdf_id))
  IN IF v # "Ok" THEN CtxErr(v)
     ELSE IF ~key.ok \/ ~base_nonce.ok \/ ~exporter_secret.ok THEN CtxErr("CryptoError")
     ELSE CtxOk([key |-> key.v, nonce |-> base_nonce.v,
                 exporter_secret |-> exporter_secret.v,
                 sequence_number |-> Zero32, hpke |-> hpke])

\* -------------------------------------------------------------- Context
\* util::xor_bytes of the padded counter with the base nonce
xor_bytes(enc_seq, nonce) == [base |-> nonce, mask |-> enc_seq]

\* Context::compute_nonce: nonce.len() - seq.len() underflows for a nonce shorter
\* than the counter, and the call panics
compute_nonce_panics(ctx) == ctx.nonce.len < SeqLen

\* a faulty Context::compute_nonce: the counter's bytes lead and the zeros follow
compute_nonce_left_aligned(ctx) ==
  xor_bytes(ctx.sequence_number \o Rep(0, ctx.nonce.len - SeqLen), ctx.nonce)

\* Context::compute_nonce
compute_nonce(ctx) ==
  xor_bytes(Rep(0, ctx.nonce.len - SeqLen) \o ctx.sequence_number, ctx.nonce)

\* Context::increment_seq; oc: the build checks arithmetic overflow (and panics),
\* otherwise `+= 1` wraps
increment_seq(ctx, oc) ==
  IF BytesGE(U128From(ctx.sequence_number), LimitFor(nonce_length(ctx.hpke.aead_id)))
  THEN [res |-> "MessageLimitReached", ctx |-> ctx]
  ELSE IF ctx.sequence_number = U32Max /\ oc
  THEN [res |-> "Panic", ctx |-> ctx]
  ELSE [res |-> "Ok",
        ctx |-> [ctx EXCEPT !.sequence_number = IncBytes(ctx.sequence_number)]]

\* the outcome of Context::seal / Context::open: the result, the Context afterwards,
\* whether the provider's AEAD was invoked, whether tag verification failed, and the
\* ciphertext (seal) or plaintext (open) returned
Outcome(res, ctx, aead, mismatch, ct, pt) ==
  [res |-> res, ctx |-> ctx, aead |-> aead, mismatch |-> mismatch, ct |-> ct, pt |-> pt]

\* a faulty Context::seal: the counter is advanced before the AEAD is called, and
\* stays advanced when the AEAD fails
context_seal_inc_first(ctx, oc, aad, plain_txt) ==
  IF compute_nonce_panics(ctx) THEN Outcome("Panic", ctx, FALSE, FALSE, None, <<>>)
  ELSE LET c == aead_seal(ctx.hpke.aead_id, ctx.key, compute_nonce(ctx), aad, plain_txt)
           i == increment_seq(ctx, oc)
       IN IF i.res # "Ok" THEN Outcome(i.res, ctx, FALSE, FALSE, None, <<>>)
          ELSE IF ~c.ok THEN Outcome(FromCryptoError(c.e), i.ctx, TRUE, FALSE, None, <<>>)
          ELSE Outcome("Ok", i.ctx, TRUE, FALSE, Some(c.v), <<>>)

\* Context::seal
context_seal(ctx, oc, aad, plain_txt) ==
  IF compute_nonce_panics(ctx) THEN Outcome("Panic", ctx, FALSE, FALSE, None, <<>>)
  ELSE LET c == aead_seal(ctx.hpke.aead_id, ctx.key, compute_nonce(ctx), aad, plain_txt)
           i == increment_seq(ctx, oc)
       IN IF ~c.ok THEN Outcome(FromCryptoError(c.e), ctx, TRUE, FALSE, None, <<>>)
          ELSE IF i.res # "Ok" THEN Outcome(i.res, ctx, TRUE, FALSE, None, <<>>)
          ELSE Outcome("Ok", i.ctx, TRUE, FALSE, Some(c.v), <<>>)

\* a faulty Context::open: the counter is advanced before the nonce is computed
context_open_inc_first(ctx, oc, aad, cipher_txt) ==
  IF compute_nonce_panics(ctx) THEN Outcome("Panic", ctx, FALSE, FALSE, None, <<>>)
  ELSE LET i == increment_seq(ctx, oc)
           p == aead_open(ctx.hpke.aead_id, ctx.key, compute_nonce(i.ctx), aad, cipher_txt)
       IN IF i.res # "Ok" THEN Outcome(i.res, ctx, FALSE, FALSE, None, <<>>)
          ELSE IF ~p.ok THEN Outcome(FromCryptoError(p.e), ctx, TRUE, p.mismatch, None, <<>>)
          ELSE Outcome("Ok", i.ctx, TRUE, FALSE, None, p.v)

\* Context::open
context_open(ctx, oc, aad, cipher_txt) ==
  IF compute_nonce_panics(ctx) THEN Outcome("Panic", ctx, FALSE, FALSE, None, <<>>)
  ELSE LET p == aead_open(ctx.hpke.aead_id, ctx.key, compute_nonce(ctx), aad, cipher_txt)
           i == increment_seq(ctx, oc)
       IN IF ~p.ok THEN Outcome(FromCryptoError(p.e), ctx, TRUE, p.mismatch, None, <<>>)
          ELSE IF i.res # "Ok" THEN Outcome(i.res, ctx, TRUE, FALSE, None, <<>>)
          ELSE Outcome("Ok", i.ctx, TRUE, FALSE, None, p.v)

\* a faulty Context::export: the message counter is mixed into the derivation
context_export_seq(ctx, exporter_context, length) ==
  LET x == labeled_expand(ctx.hpke.kdf_id, ctx.exporter_secret, ciphersuite(ctx.hpke),
                          "sec", <<exporter_context, ctx.sequence_number>>, length)
  IN IF x.ok THEN x ELSE Err("CryptoError")

\* Context::export
context_export(ctx, exporter_context, length) ==
  LET x == labeled_expand(ctx.hpke.kdf_id, ctx.exporter_secret, ciphersuite(ctx.hpke),
                          "sec", exporter_context, length)
  IN IF x.ok THEN x ELSE Err("CryptoError")

\* ----------------------------------------------------------------- Hpke
IsAuthMode(m) == m \in {"Auth", "AuthPsk"}

\* the result of Hpke::setup_sender: drew says that the configuration's PRNG was
\* used, ks that key_schedule was called
SetupOut(res, enc, ctx, drew, ks) ==
  [res |-> res, enc |-> enc, ctx |-> ctx, drew |-> drew, ks |-> ks]

\* Hpke::setup_sender, the return: the encapsulation k.enc and the Context of c
sender_return(k, c) ==
  IF ~c.ok THEN SetupOut(c.e, None, None, TRUE, TRUE)
  ELSE SetupOut("Ok", Some(k.enc), c.ctx, TRUE, TRUE)

\* Hpke::setup_sender, from the KEM result k on: `?` on k, then the key schedule.
\* Every KEM call but the unsupported one draws from the PRNG.
sender_key_schedule(hpke, k, info, psk, psk_id) ==
  IF ~k.ok
  THEN SetupOut(FromCryptoError(k.e), None, None, k.e # "UnsupportedKemOperation", FALSE)
  ELSE sender_return(k, key_schedule(hpke, k.zz, info, unwrap_or_default(psk),
                                     unwrap_or_default(psk_id)))

\* a faulty Hpke::setup_sender: without sk_s it falls back to the unauthenticated
\* encapsulation
setup_sender_unauthenticated(hpke, pk_r, info, psk, psk_id, sk_s, r) ==
  sender_key_schedule(hpke,
                      IF hpke.mode \in {"Base", "Psk"} \/ sk_s = None
                      THEN encaps(hpke.kem_id, pk_r, r)
                      ELSE auth_encaps(hpke.kem_id, pk_r, sk_s[1], r),
                      info, psk, psk_id)

\* a faulty Hpke::setup_sender: the PSK inputs are verified before the KEM is called
setup_sender_psk_first(hpke, pk_r, info, psk, psk_id, sk_s, r) ==
  LET v == verify_psk_inputs(hpke.mode, unwrap_or_default(psk), unwrap_or_default(psk_id))
  IN IF v # "Ok" THEN SetupOut(v, None, None, FALSE, FALSE)
     ELSE IF hpke.mode \in {"Auth", "AuthPsk"} /\ sk_s = None
     THEN SetupOut("InvalidInput", None, None, FALSE, FALSE)
     ELSE sender_key_schedule(hpke,
                              IF hpke.mode \in {"Base", "Psk"}
                              THEN encaps(hpke.kem_id, pk_r, r)
                              ELSE auth_encaps(hpke.kem_id, pk_r, sk_s[1], r),
                              info, psk, psk_id)

\* Hpke::setup_sender; r is the index of the next draw of the configuration's PRNG
setup_sender(hpke, pk_r, info, psk, psk_id, sk_s, r) ==
  IF hpke.mode \in {"Auth", "AuthPsk"} /\ sk_s = None
  THEN SetupOut("InvalidInput", None, None, FALSE, FALSE)
  ELSE sender_key_schedule(hpke,
                           IF hpke.mode \in {"Base", "Psk"}
                           THEN encaps(hpke.kem_id, pk_r, r)
                           ELSE auth_encaps(hpke.kem_id, pk_r, sk_s[1], r),
                           info, psk, psk_id)

\* Hpke::setup_receiver, from the KEM result k on: `?` on k, then the key schedule
receiver_key_schedule(hpke, k, info, psk, psk_id) ==
  IF ~k.ok THEN CtxSkip(FromCryptoError(k.e))
  ELSE key_schedule(hpke, k.zz, info, unwrap_or_default(psk), unwrap_or_default(psk_id))

\* a faulty Hpke::setup_receiver: info is not handed to the key schedule
setup_receiver_info_dropped(hpke, enc, sk_r, info, psk, psk_id, pk_s) ==
  IF hpke.mode \in {"Auth", "AuthPsk"} /\ pk_s = None
  THEN CtxSkip("InvalidInput")
  ELSE receiver_key_schedule(hpke,
                             IF hpke.mode \in {"Base", "Psk"}
                             THEN decaps(hpke.kem_id, enc, sk_r)
                             ELSE auth_decaps(hpke.kem_id, enc, sk_r, pk_s[1]),
                             <<>>, psk, psk_id)

\* Hpke::setup_receiver
setup_receiver(hpke, enc, sk_r, info, psk, psk_id, pk_s) ==
  IF hpke.mode \in {"Auth", "AuthPsk"} /\ pk_s = None
  THEN CtxSkip("InvalidInput")
  ELSE receiver_key_schedule(hpke,
                             IF hpke.mode \in {"Base", "Psk"}
                             THEN decaps(hpke.kem_id, enc, sk_r)
                             ELSE auth_decaps(hpke.kem_id, enc, sk_r, pk_s[1]),
                             info, psk, psk_id)

\* the result of a single-shot call: res, the encapsulation and the ciphertext,
\* plaintext or exported secret returned, whether tag verification failed, whether
\* the AEAD was invoked and whether the PRNG was used
ShotOut(res, enc, ct, pt, exp, mismatch, aead, drew) ==
  [res |-> res, enc |-> enc, ct |-> ct, pt |-> pt, exp |-> exp,
   mismatch |-> mismatch, aead |-> aead, drew |-> drew]

\* Hpke::seal, the return: (enc, ctxt)
seal_return(s, o) ==
  IF o.res # "Ok" THEN ShotOut(o.res, None, None, <<>>, None, FALSE, o.aead, s.drew)
  ELSE ShotOut("Ok", s.enc, o.ct, <<>>, None, FALSE, o.aead, s.drew)

\* Hpke::seal, from the result s of setup_sender on
seal_after_setup(s, oc, aad, plain_txt) ==
  IF s.res # "Ok" THEN ShotOut(s.res, None, None, <<>>, None, FALSE, FALSE, s.drew)
  ELSE seal_return(s, context_seal(s.ctx[1], oc, aad, plain_txt))

\* Hpke::seal
hpke_seal(hpke, oc, pk_r, info, aad, plain_txt, psk, psk_id, sk_s, r) ==
  seal_after_setup(setup_sender(hpke, pk_r, info, psk, psk_id, sk_s, r), oc, aad,
                   plain_txt)

\* Hpke::open, the return
open_return(o) == ShotOut(o.res, None, None, o.pt, None, o.mismatch, o.aead, FALSE)

\* Hpke::open, from the result c of setup_receiver on
open_after_setup(c, oc, aad, ct) ==
  IF ~c.ok THEN ShotOut(c.e, None, None, <<>>, None, FALSE, FALSE, FALSE)
  ELSE open_return(context_open(c.ctx[1], oc, aad, ct))

\* Hpke::open
hpke_open(hpke, oc, enc, sk_r, info, aad, ct, psk, psk_id, pk_s) ==
  open_after_setup(setup_receiver(hpke, enc, sk_r, info, psk, psk_id, pk_s), oc, aad, ct)

\* Hpke::send_export, the return: (enc, exported secret)
send_export_return(s, x) ==
  IF ~x.ok THEN ShotOut(x.e, None, None, <<>>, None, FALSE, FALSE, s.drew)
  ELSE ShotOut("Ok", s.enc, None, <<>>, Some(x.v), FALSE, FALSE, s.drew)

\* Hpke::send_export, from the result s of setup_sender on
export_after_setup(s, exporter_context, length) ==
  IF s.res # "Ok" THEN ShotOut(s.res, None, None, <<>>, None, FALSE, FALSE, s.drew)
  ELSE send_export_return(s, context_export(s.ctx[1], exporter_context, length))

\* Hpke::send_export
send_export(hpke, pk_r, info, psk, psk_id, sk_s, exporter_context, length, r) ==
  export_after_setup(setup_sender(hpke, pk_r, info, psk, psk_id, sk_s, r),
                     exporter_context, length)

\* Hpke::receiver_export, the return
receiver_export_return(x) ==
  IF ~x.ok THEN ShotOut(x.e, None, None, <<>>, None, FALSE, FALSE, FALSE)
  ELSE ShotOut("Ok", None, None, <<>>, Some(x.v), FALSE, FALSE, FALSE)

\* Hpke::receiver_export, from the result c of setup_receiver on
receiver_export_after_setup(c, exporter_context, length) ==
  IF ~c.ok THEN ShotOut(c.e, None, None, <<>>, None, FALSE, FALSE, FALSE)
  ELSE receiver_export_return(context_export(c.ctx[1], exporter_context, length))

\* Hpke::receiver_export
receiver_export(hpke, enc, sk_r, info, psk, psk_id, pk_s, exporter_context, length) ==
  receiver_export_after_setup(setup_receiver(hpke, enc, sk_r, info, psk, psk_id, pk_s),
                              exporter_context, length)

\* ---------------------------------------------------------------- inputs
Infos == {<<>>, <<1>>}
Aads == {<<>>, <<1>>}
Pts == {<<>>, <<2>>}
ShortPsk == Rep(7, MinPskLen - 1)
GoodPsk == Rep(7, MinPskLen)
LongPsk == Rep(7, MinPskLen + 1)
PskOpts == {None, Some(<<>>), Some(ShortPsk), Some(GoodPsk)}
PskIdOpts == {None, Some(<<>>), Some(<<5>>)}
FewPskOpts == {None, Some(GoodPsk)}
FewPskIdOpts == {None, Some(<<5>>)}
Psks == {<<>>, ShortPsk, GoodPsk, LongPsk}
PskIds == {<<>>, <<5>>}
PkRs == {Pk(1)}
SkRs == {Sk(1)}
SkOpts == {None, Some(Sk(2))}
PkOpts == {None, Some(Pk(2))}
XCtxs == {<<>>, <<4>>}
XLens == {32, 255 * 32 + 1}

\* a shared secret handed to key_schedule directly
SomeZz == [xw |-> 1, r |-> EphId(0)]

\* the last value the counter takes in a long run of exchanges: u32::MAX - 1
FarSeq == [i \in 1..SeqLen |-> IF i = SeqLen THEN 254 ELSE 255]

\* a counter as a number one byte wider, for counting calls past u32::MAX
Wide(seq) == <<0>> \o seq

\* the counter values from which the model lets a Context seal: the first MaxSeals
\* values and the values from FarSeq on
InWindow(seq) ==
  \/ BytesGE(seq, FarSeq)
  \/ (\A i \in 1..(SeqLen - 1) : seq[i] = 0) /\ seq[SeqLen] < MaxSeals

\* a ciphertext with a flipped bit, and one cut below the tag length
Tamper(c) == [c EXCEPT !.tampered = TRUE]
Truncate(c) == [c EXCEPT !.tampered = TRUE, !.len = TagLen - 1]

\* ----------------------------------------------------------------- state
VARIABLES
  hpke,             \* the Hpke configuration both parties use: mode, kem, kdf, aead
  overflow_checks,  \* per party: its build panics on integer overflow
  prng,             \* draws made so far on the sender configuration's PRNG
  sctx,             \* the sender's Context (Option)
  rctx,             \* the receiver's Context (Option)
  s_in,             \* the inputs of the sender's successful setup (Option)
  r_in,             \* the inputs of the receiver's successful setup (Option)
  enc,              \* the encapsulation returned to the sender (Option)
  wire,             \* the latest ciphertexts the sender has produced, oldest first
  sealed,           \* successful seals on sctx since it was made
  opened,           \* successful opens on rctx since it was made
  sx,               \* what send_export returned (Option)
  last,             \* the last call and what it returned
  sk,               \* an HpkePrivateKey the caller holds (Option)
  kp,               \* an HpkeKeyPair the caller holds (Option)
  heap,             \* the buffers freed so far, with the bytes left in them
  clone,            \* a clone of the configuration, with its own PRNG (Option)
  os,               \* how many seeds the operating system has handed out
  lock,             \* the thread holding the write lock of the PRNG (Option)
  pc,               \* per caller: where it is in a draw
  local,            \* per caller: the generator state it has read (Option)
  got,              \* per caller: the PRNG outputs it has received
  used,             \* the nonces of the successful seals on sctx (history)
  fake_rng,         \* the byte pool of the test PRNG (empty in a build without one)
  drawn             \* the bytes taken from the pool since it was set, latest first

vars == <<hpke, overflow_checks, prng, sctx, rctx, s_in, r_in, enc, wire,
          sealed, opened, sx, last, sk, kp, heap, clone, os, lock, pc, local, got,
         used, fake_rng, drawn>>

\* the callers that draw from a PRNG
Callers == {1, 2}

\* the PRNG of a fresh configuration: one seed handed out, no clone, nobody drawing
InitRng ==
  /\ clone = None /\ os = 1 /\ lock = None
  /\ pc = [t \in Callers |-> "idle"]
  /\ local = [t \in Callers |-> None]
  /\ got = [t \in Callers |-> <<>>]

rngvars == <<clone, os, lock, pc, local, got>>

\* the key objects, the freed memory and the callers of the PRNG, which no call of
\* a session touches
\* the nonce history and the test pool
rest == <<used, fake_rng, drawn>>

aux == <<sk, kp, heap, rngvars, rest>>

\* no key object is held and nothing has been freed
\* no seal has been made, and the build has no test pool
InitRest == used = {} /\ fake_rng = <<>> /\ drawn = <<>>

InitAux == sk = None /\ kp = None /\ heap = {} /\ InitRng /\ InitRest

\* a call and its result, with nothing else observed; psk and psk_id are Options,
\* nokey says that the mode is authenticated and the call got None for sk_s / pk_s
Call(op, who, res) ==
  [op |-> op, who |-> who, res |-> res, aead |-> FALSE, mismatch |-> FALSE,
   made |-> FALSE, seq0 |-> None, ct |-> None, aad |-> <<>>, pt |-> <<>>,
   psk |-> <<>>, psk_id |-> <<>>, rin |-> None, exp |-> None, xargs |-> None,
   drew |-> FALSE, ks |-> FALSE, nokey |-> FALSE]

\* the inputs of a sender setup, as far as the setup reads them
SenderInputs(h, pk_r, info, psk, psk_id, sk_s) ==
  [pk_r |-> pk_r, info |-> info, psk |-> unwrap_or_default(psk),
   psk_id |-> unwrap_or_default(psk_id),
   sk_s |-> IF IsAuthMode(h.mode) THEN sk_s ELSE None]

\* the inputs of a receiver setup, as far as the setup reads them
ReceiverInputs(h, e, sk_r, info, psk, psk_id, pk_s) ==
  [enc |-> e, sk_r |-> sk_r, info |-> info, psk |-> unwrap_or_default(psk),
   psk_id |-> unwrap_or_default(psk_id),
   pk_s |-> IF IsAuthMode(h.mode) THEN pk_s ELSE None]

\* the Option a caller passes for a byte string: None for the empty one
AsOption(b) == IF b = <<>> THEN None ELSE Some(b)

\* receiver inputs r match sender inputs s and the encapsulation e the sender got
MatchingInputs(h, e, s, r) ==
  /\ r.enc = e
  /\ secret_to_public(r.sk_r) = s.pk_r
  /\ r.info = s.info /\ r.psk = s.psk /\ r.psk_id = s.psk_id
  /\ IsAuthMode(h.mode) =>
       (s.sk_s # None /\ r.pk_s = Some(secret_to_public(s.sk_s[1])))

Configs == [mode : Modes, kem_id : Kems, kdf_id : Kdfs, aead_id : Aeads]

\* Hpke::new on both sides; nothing set up yet.  The overflow behaviour of a build
\* is read only at sequence_number = u32::MAX, which the sessions started here stay
\* far below (InWindow); SpecSeq follows the counter there, for every build.
Init ==
  /\ hpke \in Configs
  /\ overflow_checks = [p \in {"S", "R"} |-> FALSE]
  /\ prng = 0
  /\ sctx = None /\ rctx = None /\ s_in = None /\ r_in = None /\ enc = None
  /\ wire = <<>>
  /\ sealed = Wide(Zero32) /\ opened = Wide(Zero32)
  /\ sx = None
  /\ last = Call("none", "-", "Ok")
  /\ InitAux

\* -------------------------------------------------------------- actions
\* Hpke::key_schedule called on the configuration, before any setup
KeySchedule ==
  /\ s_in = None /\ enc = None
  /\ \E info \in Infos, psk \in Psks, psk_id \in PskIds :
       \E c \in {key_schedule(hpke, SomeZz, info, psk, psk_id)} :
          last' = [Call("key_schedule", "-", c.e) EXCEPT
                     !.made = c.ok, !.ks = TRUE, !.psk = Some(psk),
                     !.psk_id = Some(psk_id),
                     !.seq0 = IF c.ok THEN Some(c.ctx[1].sequence_number) ELSE None]
  /\ UNCHANGED aux
  /\ UNCHANGED <<hpke, overflow_checks, prng, sctx, rctx, s_in, r_in, enc, wire,
                 sealed, opened, sx>>

\* Hpke::setup_sender with psk and psk_id drawn from the given sets
SetupSenderWith(psks, psk_ids) ==
  /\ s_in = None /\ prng < MaxDraws
  /\ \E pk_r \in PkRs, info \in Infos, psk \in psks, psk_id \in psk_ids,
        sk_s \in SkOpts :
       \E s \in {setup_sender(hpke, pk_r, info, psk, psk_id, sk_s, prng)} :
          /\ prng' = IF s.drew THEN prng + 1 ELSE prng
          /\ sctx' = s.ctx
          /\ enc' = s.enc
          /\ s_in' = IF s.res = "Ok"
                     THEN Some(SenderInputs(hpke, pk_r, info, psk, psk_id, sk_s))
                     ELSE None
          /\ last' = [Call("setup_sender", "S", s.res) EXCEPT
                        !.made = s.ctx # None, !.drew = s.drew, !.ks = s.ks,
                        !.psk = psk, !.psk_id = psk_id,
                        !.nokey = IsAuthMode(hpke.mode) /\ sk_s = None,
                        !.seq0 = IF s.ctx # None
                                 THEN Some(s.ctx[1].sequence_number) ELSE None]
  /\ sealed' = Wide(Zero32)
  /\ UNCHANGED aux
  /\ UNCHANGED <<hpke, overflow_checks, rctx, r_in, wire, opened, sx>>

SetupSender == SetupSenderWith(FewPskOpts, FewPskIdOpts)

\* Hpke::setup_receiver, with the encapsulation the sender passed on
SetupReceiverWith(psks, psk_ids) ==
  /\ enc # None /\ r_in = None
  /\ \E sk_r \in SkRs, info \in Infos, psk \in psks, psk_id \in psk_ids,
        pk_s \in PkOpts :
       \E c \in {setup_receiver(hpke, enc[1], sk_r, info, psk, psk_id, pk_s)} :
          /\ rctx' = c.ctx
          /\ r_in' = IF c.ok
                     THEN Some(ReceiverInputs(hpke, enc[1], sk_r, info, psk, psk_id, pk_s))
                     ELSE None
          /\ last' = [Call("setup_receiver", "R", c.e) EXCEPT
                        !.made = c.ok, !.ks = c.ks,
                        !.psk = psk, !.psk_id = psk_id,
                        !.nokey = IsAuthMode(hpke.mode) /\ pk_s = None,
                        !.seq0 = IF c.ok THEN Some(c.ctx[1].sequence_number) ELSE None]
  /\ opened' = Wide(Zero32)
  /\ UNCHANGED aux
  /\ UNCHANGED <<hpke, overflow_checks, prng, sctx, s_in, enc, wire, sealed, sx>>

SetupReceiver == SetupReceiverWith(FewPskOpts, FewPskIdOpts)

\* the wire after one more ciphertext
Sent(w, c) == IF Len(w) < MaxWire THEN Append(w, c) ELSE Append(Tail(w), c)

\* Context::seal on the sender's Context
Seal ==
  /\ sctx # None /\ InWindow(sctx[1].sequence_number)
  /\ \E aad \in Aads, pt \in Pts :
       \E o \in {context_seal(sctx[1], overflow_checks["S"], aad, pt)} :
          /\ sctx' = Some(o.ctx)
          /\ wire' = IF o.res = "Ok" THEN Sent(wire, o.ct[1]) ELSE wire
          /\ sealed' = IF o.res = "Ok" THEN IncBytes(sealed) ELSE sealed
          /\ last' = [Call("seal", "S", o.res) EXCEPT
                        !.aead = o.aead, !.ct = o.ct, !.aad = aad,
                        !.seq0 = Some(sctx[1].sequence_number)]
          /\ used' = IF o.res = "Ok" THEN used \cup {o.ct[1].nonce} ELSE used
  /\ UNCHANGED <<sk, kp, heap, rngvars, fake_rng, drawn>>
  /\ UNCHANGED <<hpke, overflow_checks, prng, rctx, s_in, r_in, enc, opened, sx>>

\* what may be handed to open: a ciphertext from the wire, intact, altered or cut
Deliverable ==
  LET w == {wire[i] : i \in 1..Len(wire)}
  IN w \cup {Tamper(c) : c \in w} \cup {Truncate(c) : c \in w}

\* Context::open on the receiver's Context
Open ==
  /\ rctx # None
  /\ \E aad \in Aads, c \in Deliverable :
       \E o \in {context_open(rctx[1], overflow_checks["R"], aad, c)} :
          /\ rctx' = Some(o.ctx)
          /\ opened' = IF o.res = "Ok" THEN IncBytes(opened) ELSE opened
          /\ last' = [Call("open", "R", o.res) EXCEPT
                        !.aead = o.aead, !.mismatch = o.mismatch, !.ct = Some(c),
                        !.aad = aad, !.pt = o.pt,
                        !.seq0 = Some(rctx[1].sequence_number)]
  /\ UNCHANGED aux
  /\ UNCHANGED <<hpke, overflow_checks, prng, sctx, s_in, r_in, enc, wire, sealed, sx>>

\* Context::export on either Context
Export ==
  /\ \E who \in {"S", "R"}, xc \in XCtxs, len \in XLens :
       \E c \in {IF who = "S" THEN sctx ELSE rctx} \ {None} :
       \E x \in {context_export(c[1], xc, len)} :
          /\ last' = [Call("export", who, x.e) EXCEPT
                        !.exp = IF x.ok THEN Some(x.v) ELSE None,
                        !.xargs = Some(<<xc, len>>)]
  /\ UNCHANGED aux
  /\ UNCHANGED <<hpke, overflow_checks, prng, sctx, rctx, s_in, r_in, enc, wire,
                 sealed, opened, sx>>

\* A long run of exchanges on two fresh Contexts in step: the sender seals and the
\* receiver opens, in order, FarSeq messages.  Every seal and open of the run finds
\* its counter below u32::MAX and adds one to it.  Of the nonces of the run, the
\* history keeps the first.
ExchangeRun ==
  /\ sctx # None /\ rctx # None
  /\ sealed = Wide(Zero32) /\ opened = Wide(Zero32)
  /\ sctx[1].sequence_number = Zero32 /\ rctx[1].sequence_number = Zero32
  /\ \E o \in {context_seal(sctx[1], overflow_checks["S"], <<>>, <<>>)} :
        /\ o.res = "Ok"
        /\ context_open(rctx[1], overflow_checks["R"], <<>>, o.ct[1]).res = "Ok"
        /\ used' = {o.ct[1].nonce}
  /\ sctx' = Some([sctx[1] EXCEPT !.sequence_number = FarSeq])
  /\ rctx' = Some([rctx[1] EXCEPT !.sequence_number = FarSeq])
  /\ sealed' = Wide(FarSeq) /\ opened' = Wide(FarSeq)
  /\ wire' = <<>>
  /\ last' = Call("run", "-", "Ok")
  /\ UNCHANGED <<sk, kp, heap, rngvars, fake_rng, drawn>>
  /\ UNCHANGED <<hpke, overflow_checks, prng, s_in, r_in, enc, sx>>

\* Hpke::seal, single shot: the Context is dropped when the call returns
HpkeSeal ==
  /\ s_in = None /\ prng < MaxDraws
  /\ \E pk_r \in PkRs, info \in Infos, aad \in Aads, pt \in Pts, psk \in FewPskOpts,
        psk_id \in FewPskIdOpts, sk_s \in SkOpts :
       \E o \in {hpke_seal(hpke, overflow_checks["S"], pk_r, info, aad, pt, psk,
                            psk_id, sk_s, prng)} :
          /\ prng' = IF o.drew THEN prng + 1 ELSE prng
          /\ enc' = o.enc
          /\ wire' = IF o.res = "Ok" THEN <<o.ct[1]>> ELSE wire
          /\ s_in' = IF o.res = "Ok"
                     THEN Some(SenderInputs(hpke, pk_r, info, psk, psk_id, sk_s))
                     ELSE None
          /\ last' = [Call("hpke_seal", "S", o.res) EXCEPT
                        !.aead = o.aead, !.ct = o.ct, !.aad = aad, !.drew = o.drew,
                        !.nokey = IsAuthMode(hpke.mode) /\ sk_s = None]
  /\ UNCHANGED aux
  /\ UNCHANGED <<hpke, overflow_checks, sctx, rctx, r_in, sealed, opened, sx>>

\* Hpke::open, single shot, on what Hpke::seal produced; the receiver holds the
\* sender's psk and psk_id
HpkeOpen ==
  /\ enc # None /\ r_in = None /\ sctx = None /\ s_in # None
  /\ \E sk_r \in SkRs, info \in Infos, aad \in Aads, c \in Deliverable,
        pk_s \in PkOpts :
       \E psk \in {AsOption(s_in[1].psk)}, psk_id \in {AsOption(s_in[1].psk_id)} :
       \E o \in {hpke_open(hpke, overflow_checks["R"], enc[1], sk_r, info, aad, c,
                            psk, psk_id, pk_s)} :
          last' = [Call("hpke_open", "R", o.res) EXCEPT
                     !.aead = o.aead, !.mismatch = o.mismatch, !.ct = Some(c),
                     !.aad = aad, !.pt = o.pt,
                     !.nokey = IsAuthMode(hpke.mode) /\ pk_s = None,
                     !.rin = Some(ReceiverInputs(hpke, enc[1], sk_r, info, psk,
                                                 psk_id, pk_s))]
  /\ UNCHANGED aux
  /\ UNCHANGED <<hpke, overflow_checks, prng, sctx, rctx, s_in, r_in, enc, wire,
                 sealed, opened, sx>>

\* Hpke::send_export, single shot
SendExport ==
  /\ s_in = None /\ prng < MaxDraws
  /\ \E pk_r \in PkRs, info \in Infos, psk \in FewPskOpts, psk_id \in FewPskIdOpts,
        sk_s \in SkOpts, xc \in XCtxs, len \in XLens :
       \E o \in {send_export(hpke, pk_r, info, psk, psk_id, sk_s, xc, len, prng)} :
          /\ prng' = IF o.drew THEN prng + 1 ELSE prng
          /\ enc' = o.enc
          /\ s_in' = IF o.res = "Ok"
                     THEN Some(SenderInputs(hpke, pk_r, info, psk, psk_id, sk_s))
                     ELSE None
          /\ sx' = IF o.res = "Ok" THEN Some([xargs |-> <<xc, len>>, exp |-> o.exp[1]])
                   ELSE sx
          /\ last' = [Call("send_export", "S", o.res) EXCEPT
                        !.exp = o.exp, !.xargs = Some(<<xc, len>>), !.drew = o.drew,
                        !.nokey = IsAuthMode(hpke.mode) /\ sk_s = None]
  /\ UNCHANGED aux
  /\ UNCHANGED <<hpke, overflow_checks, sctx, rctx, r_in, wire, sealed, opened>>

\* Hpke::receiver_export, single shot, after Hpke::send_export; the receiver
\* holds the sender's psk and psk_id
ReceiverExport ==
  /\ enc # None /\ r_in = None /\ sx # None /\ s_in # None
  /\ \E sk_r \in SkRs, info \in Infos, pk_s \in PkOpts, xc \in XCtxs, len \in XLens :
       \E psk \in {AsOption(s_in[1].psk)}, psk_id \in {AsOption(s_in[1].psk_id)} :
       \E o \in {receiver_export(hpke, enc[1], sk_r, info, psk, psk_id, pk_s, xc, len)} :
          last' = [Call("receiver_export", "R", o.res) EXCEPT
                     !.exp = o.exp, !.xargs = Some(<<xc, len>>),
                     !.nokey = IsAuthMode(hpke.mode) /\ pk_s = None,
                     !.rin = Some(ReceiverInputs(hpke, enc[1], sk_r, info, psk,
                                                 psk_id, pk_s))]
  /\ UNCHANGED aux
  /\ UNCHANGED <<hpke, overflow_checks, prng, sctx, rctx, s_in, r_in, enc, wire,
                 sealed, opened, sx>>

\* Sessions: setup on both sides, then seal, open and export, and the single-shot
\* calls
Next ==
  \/ SetupSender
  \/ SetupReceiver
  \/ Seal
  \/ Open
  \/ Export
  \/ HpkeSeal
  \/ HpkeOpen
  \/ SendExport
  \/ ReceiverExport

Spec == Init /\ [][Next]_vars

\* ------------------------------------------------ PSK validation on its own
SetupSenderAnyPsk == SetupSenderWith(PskOpts, PskIdOpts)
SetupReceiverAnyPsk == SetupReceiverWith(PskOpts, PskIdOpts)

\* key_schedule and the two setups, with every shape of psk and psk_id
NextPsk ==
  \/ KeySchedule
  \/ SetupSenderAnyPsk
  \/ SetupReceiverAnyPsk

SpecPsk == Init /\ [][NextPsk]_vars

\* ------------------------------------------------ setup on what arrives
\* the encapsulations that may reach a receiver of the given KEM: one made for its
\* key, one made for another key, and one cut by one byte
NetEncs(kem) ==
  IF kem = "XWingDraft06"
  THEN {kem_encaps(kem, Pk(i), 0).enc : i \in KeyIds}
       \cup {Cut(kem_encaps(kem, Pk(1), 0).enc)}
  ELSE {Pk(EphId(0)), Cut(Pk(EphId(0)))}

\* Hpke::setup_receiver on an encapsulation received from anyone
SetupReceiverNet ==
  /\ r_in = None
  /\ \E e \in NetEncs(hpke.kem_id), sk_r \in SkRs, info \in Infos, psk \in FewPskOpts,
        psk_id \in FewPskIdOpts, pk_s \in PkOpts :
       \E c \in {setup_receiver(hpke, e, sk_r, info, psk, psk_id, pk_s)} :
          /\ rctx' = c.ctx
          /\ r_in' = IF c.ok
                     THEN Some(ReceiverInputs(hpke, e, sk_r, info, psk, psk_id, pk_s))
                     ELSE None
          /\ last' = [Call("setup_receiver", "R", c.e) EXCEPT
                        !.made = c.ok, !.ks = c.ks,
                        !.psk = psk, !.psk_id = psk_id,
                        !.nokey = IsAuthMode(hpke.mode) /\ pk_s = None,
                        !.ct = Some(e),
                        !.seq0 = IF c.ok THEN Some(c.ctx[1].sequence_number) ELSE None]
  /\ opened' = Wide(Zero32)
  /\ UNCHANGED aux
  /\ UNCHANGED <<hpke, overflow_checks, prng, sctx, s_in, enc, wire, sealed, sx>>

\* the two setups, the receiver's on any encapsulation
NextNet ==
  \/ SetupSender
  \/ SetupReceiverNet

SpecNet == Init /\ [][NextNet]_vars

\* ------------------------------------------------ the counter on its own
\* the configurations whose Contexts the counter is followed on
SeqConfigs == {c \in Configs : c.kem_id = "DhKem25519" /\ c.mode \in {"Base", "AuthPsk"}}

\* what a party passes for psk and psk_id in a mode
PskFor(mode) == IF mode \in {"Psk", "AuthPsk"} THEN Some(GoodPsk) ELSE None
PskIdFor(mode) == IF mode \in {"Psk", "AuthPsk"} THEN Some(<<5>>) ELSE None

\* both Contexts as setup_sender and setup_receiver return them for matching inputs;
\* each party's build checks overflow or does not
InitSeq ==
  /\ hpke \in SeqConfigs
  /\ overflow_checks \in [{"S", "R"} -> BOOLEAN]
  /\ prng = 1
  /\ LET psk == PskFor(hpke.mode)
         psk_id == PskIdFor(hpke.mode)
         s == setup_sender(hpke, Pk(1), <<1>>, psk, psk_id, Some(Sk(2)), 0)
         r == setup_receiver(hpke, s.enc[1], Sk(1), <<1>>, psk, psk_id, Some(Pk(2)))
     IN /\ sctx = s.ctx /\ enc = s.enc /\ rctx = r.ctx
        /\ s_in = Some(SenderInputs(hpke, Pk(1), <<1>>, psk, psk_id, Some(Sk(2))))
        /\ r_in = Some(ReceiverInputs(hpke, s.enc[1], Sk(1), <<1>>, psk, psk_id,
                                      Some(Pk(2))))
  /\ wire = <<>>
  /\ sealed = Wide(Zero32) /\ opened = Wide(Zero32)
  /\ sx = None
  /\ last = Call("none", "-", "Ok")
  /\ InitAux

NextSeq ==
  \/ Seal
  \/ Open
  \/ ExchangeRun

SpecSeq == InitSeq /\ [][NextSeq]_vars

\* ------------------------------------------------------------ key objects
\* the longest private key the model holds
MaxKeyLen == 2

\* the byte values key material is made of
ByteVals == {0, 1, 2}

\* the byte strings of at most MaxKeyLen bytes
KeyValues == UNION {[1..n -> ByteVals] : n \in 0..MaxKeyLen}

\* struct HpkePrivateKey, HpkePublicKey and HpkeKeyPair
HpkePrivateKey(value) == [value |-> value]
HpkePublicKey(value) == [value |-> value]
HpkeKeyPair(private_key, public_key) ==
  [private_key |-> private_key, public_key |-> public_key]

\* u8 arithmetic: ^ and | bit by bit, wrapping_sub modulo 2^8, and wrapping_shr,
\* which shifts by rhs modulo the width of the type
U8 == 256
U8Bits == 8
Bit(x, i) == (x \div (2 ^ i)) % 2
BitXor(a, b) ==
  LET RECURSIVE from(_)
      from(i) == IF i = U8Bits THEN 0
                 ELSE ((Bit(a, i) + Bit(b, i)) % 2) * (2 ^ i) + from(i + 1)
  IN from(0)
BitOr(a, b) ==
  LET RECURSIVE from(_)
      from(i) == IF i = U8Bits THEN 0
                 ELSE (IF Bit(a, i) + Bit(b, i) > 0 THEN 2 ^ i ELSE 0) + from(i + 1)
  IN from(0)
BitAnd(a, b) ==
  LET RECURSIVE from(_)
      from(i) == IF i = U8Bits THEN 0
                 ELSE (Bit(a, i) * Bit(b, i)) * (2 ^ i) + from(i + 1)
  IN from(0)
wrapping_sub(x, y) == (x + U8 - y) % U8
wrapping_shr(x, rhs) == x \div (2 ^ (rhs % U8Bits))

\* the loop of HpkePrivateKey::eq: the OR of the XORs of the byte pairs
different_bits(a, b) ==
  LET RECURSIVE upto(_)
      upto(i) == IF i = 0 THEN 0 ELSE BitOr(upto(i - 1), BitXor(a[i], b[i]))
  IN upto(Len(a))

\* PartialEq for HpkePrivateKey
eq(self, other) ==
  IF Len(self.value) # Len(other.value) THEN FALSE
  ELSE BitAnd(1, wrapping_sub(wrapping_shr(wrapping_sub(
                   different_bits(self.value, other.value), 1), 8), 1)) = 0

\* the session variables of a caller that has set up nothing
NoSession ==
  /\ overflow_checks = [p \in {"S", "R"} |-> FALSE]
  /\ prng = 0
  /\ sctx = None /\ rctx = None /\ s_in = None /\ r_in = None /\ enc = None
  /\ wire = <<>>
  /\ sealed = Wide(Zero32) /\ opened = Wide(Zero32)
  /\ sx = None
  /\ last = Call("none", "-", "Ok")

session == <<hpke, overflow_checks, prng, sctx, rctx, s_in, r_in, enc, wire,
             sealed, opened, sx>>

\* a caller holding a private key and a key pair
InitKeys ==
  /\ hpke \in {c \in Configs : c.mode = "Base" /\ c.kem_id = "DhKem25519"}
  /\ NoSession
  /\ sk \in {Some(HpkePrivateKey(v)) : v \in KeyValues}
  /\ kp \in {Some(HpkeKeyPair(HpkePrivateKey(v), HpkePublicKey(<<1>>))) : v \in KeyValues}
  /\ heap = {}
  /\ InitRng
  /\ InitRest

\* sk == *kp.private_key()
PrivateKeyEq ==
  /\ sk # None /\ kp # None
  /\ last' = Call("eq", "HpkePrivateKey", eq(sk[1], kp[1].private_key))
  /\ UNCHANGED session
  /\ UNCHANGED aux

NextKeys ==
  \/ PrivateKeyEq

SpecKeys == InitKeys /\ [][NextKeys]_vars

\* ------------------------------------------------ dropping and printing
\* a Context whose three buffers hold the byte b throughout
ContextOf(h, b) ==
  [key |-> Rep(b, key_length(h.aead_id)), nonce |-> Rep(b, nonce_length(h.aead_id)),
   exporter_secret |-> Rep(b, kdf_digest_length(h.kdf_id)),
   sequence_number |-> Zero32, hpke |-> h]

\* Zeroize for Vec<u8>: every byte of the buffer is overwritten with 0
zeroize(v) == Rep(0, Len(v))

\* a buffer handed back to the allocator, with the bytes left in it
Freed(field, bytes) == [field |-> field, bytes |-> bytes]

\* Drop for HpkePrivateKey (#[zeroize(drop)]): value is zeroized, then freed
drop_private_key(k) == {Freed("HpkePrivateKey.value", zeroize(k.value))}

\* dropping an HpkeKeyPair drops its fields: private_key by its Drop, public_key
\* as a plain Vec<u8>
drop_key_pair(p) ==
  drop_private_key(p.private_key) \cup {Freed("HpkePublicKey.value", p.public_key.value)}

\* dropping a Context drops its fields; Context has no Drop of its own and its
\* buffers are plain Vec<u8>
drop_context(c) ==
  {Freed("Context.key", c.key), Freed("Context.nonce", c.nonce),
   Freed("Context.exporter_secret", c.exporter_secret)}

\* what Debug prints for a field: its bytes, or the text "***"
Shown(v) == [text |-> "", bytes |-> v]
Stars == [text |-> "***", bytes |-> <<>>]

\* a faulty Debug for HpkePrivateKey: the value is printed in every build
debug_private_key_shown(k, hazmat) == <<"HpkePrivateKey", Shown(k.value)>>

\* Debug for HpkePrivateKey; hazmat: the build has the feature "hazmat"
debug_private_key(k, hazmat) ==
  <<"HpkePrivateKey", IF hazmat THEN Shown(k.value) ELSE Stars>>

\* Debug for HpkePublicKey (derived)
debug_public_key(k) == <<"HpkePublicKey", Shown(k.value)>>

\* Debug for HpkeKeyPair (derived): the Debug of both fields
debug_key_pair(p, hazmat) ==
  <<"HpkeKeyPair", debug_private_key(p.private_key, hazmat),
    debug_public_key(p.public_key)>>

\* Debug for Context
debug_context(c, hazmat) ==
  IF hazmat
  THEN <<"Context", Shown(c.key), Shown(c.nonce), Shown(c.exporter_secret),
         Shown(c.sequence_number)>>
  ELSE <<"Context", Stars, Stars, Stars, Stars>>

\* a caller holding a private key, a key pair and a Context
InitDrop ==
  /\ hpke \in {c \in Configs : c.mode = "Base" /\ c.kem_id = "DhKem25519"}
  /\ overflow_checks = [p \in {"S", "R"} |-> FALSE]
  /\ prng = 0
  /\ sctx \in {Some(ContextOf(hpke, b)) : b \in ByteVals}
  /\ rctx = None /\ s_in = None /\ r_in = None /\ enc = None
  /\ wire = <<>>
  /\ sealed = Wide(Zero32) /\ opened = Wide(Zero32)
  /\ sx = None
  /\ last = Call("none", "-", "Ok")
  /\ sk \in {Some(HpkePrivateKey(v)) : v \in KeyValues}
  /\ kp \in {Some(HpkeKeyPair(HpkePrivateKey(v), HpkePublicKey(<<1>>))) :
               v \in {<<>>, <<1, 2>>}}
  /\ heap = {}
  /\ InitRng
  /\ InitRest

\* the HpkePrivateKey goes out of scope
DropPrivateKey ==
  /\ sk # None
  /\ heap' = heap \cup drop_private_key(sk[1])
  /\ sk' = None
  /\ last' = Call("drop", "HpkePrivateKey", "Ok")
  /\ UNCHANGED <<session, kp, rngvars, rest>>

\* the HpkeKeyPair goes out of scope
DropKeyPair ==
  /\ kp # None
  /\ heap' = heap \cup drop_key_pair(kp[1])
  /\ kp' = None
  /\ last' = Call("drop", "HpkeKeyPair", "Ok")
  /\ UNCHANGED <<session, sk, rngvars, rest>>

\* the Context goes out of scope
DropContext ==
  /\ sctx # None
  /\ heap' = heap \cup drop_context(sctx[1])
  /\ sctx' = None
  /\ last' = Call("drop", "Context", "Ok")
  /\ UNCHANGED <<hpke, overflow_checks, prng, rctx, s_in, r_in, enc, wire, sealed,
                 opened, sx, sk, kp, rngvars, rest>>

\* format!("{:?}", ..) of the HpkePrivateKey, the HpkeKeyPair or the Context, in a
\* build with or without the feature "hazmat"
Debug ==
  /\ \E hazmat \in BOOLEAN :
       \E d \in {[who |-> "HpkePrivateKey", out |-> debug_private_key(sk[1], hazmat)] :
                    x \in {sk} \ {None}}
             \cup {[who |-> "HpkeKeyPair", out |-> debug_key_pair(kp[1], hazmat)] :
                    x \in {kp} \ {None}}
             \cup {[who |-> "Context", out |-> debug_context(sctx[1], hazmat)] :
                    x \in {sctx} \ {None}} :
          last' = [Call("debug", d.who, d.out) EXCEPT !.xargs = Some(hazmat)]
  /\ UNCHANGED session
  /\ UNCHANGED aux

NextDrop ==
  \/ DropPrivateKey
  \/ DropKeyPair
  \/ DropContext
  \/ Debug

SpecDrop == InitDrop /\ [][NextDrop]_vars

\* ------------------------------------------------------------------ PRNG
\* the draws a caller makes
MaxRngDraws == 3

\* ChaCha20Rng::from_os_rng(): a generator at its start, under a seed the
\* operating system has not handed out before; n seeds were handed out so far
from_os_rng(n) == [seed |-> n + 1, pos |-> 0]

\* HpkeLibcrux::prng
crypto_prng(n) == from_os_rng(n)

\* the PRNG of the configuration: made by Hpke::new, advanced by prng draws
OriginalPrng == [crypto_prng(0) EXCEPT !.pos = prng]

\* ChaCha20Rng::next_u32 on generator state g: the output and the state after
next_u32(g) == [out |-> <<g.seed, g.pos>>, rng |-> [g EXCEPT !.pos = @ + 1]]

\* struct Hpke
HpkeOf(h, g) ==
  [mode |-> h.mode, kem_id |-> h.kem_id, kdf_id |-> h.kdf_id, aead_id |-> h.aead_id,
   prng |-> g]

\* a faulty Clone for Hpke: the PRNG is copied with the other fields
hpke_clone_copies_prng(self, n) == self

\* Clone for Hpke; n seeds were handed out so far
hpke_clone(self, n) ==
  [mode |-> self.mode, kem_id |-> self.kem_id, kdf_id |-> self.kdf_id,
   aead_id |-> self.aead_id, prng |-> crypto_prng(n)]

\* a fresh configuration and nothing else
InitClone ==
  /\ hpke \in Configs
  /\ NoSession
  /\ InitAux

\* hpke.clone()
CloneHpke ==
  /\ clone = None
  /\ clone' = Some(hpke_clone(HpkeOf(hpke, OriginalPrng), os))
  /\ os' = os + 1
  /\ last' = Call("clone", "-", "Ok")
  /\ UNCHANGED <<session, sk, kp, heap, lock, pc, local, got, rest>>

\* caller 1 draws from the PRNG of the configuration
DrawOriginal ==
  /\ Len(got[1]) < MaxRngDraws
  /\ \E o \in {next_u32(OriginalPrng)} :
        /\ prng' = o.rng.pos
        /\ got' = [got EXCEPT ![1] = Append(@, o.out)]
        /\ last' = Call("draw", "original", "Ok")
  /\ UNCHANGED <<hpke, overflow_checks, sctx, rctx, s_in, r_in, enc, wire, sealed,
                 opened, sx, sk, kp, heap, clone, os, lock, pc, local, rest>>

\* caller 2 draws from the PRNG of the clone
DrawClone ==
  /\ clone # None /\ Len(got[2]) < MaxRngDraws
  /\ \E o \in {next_u32(clone[1].prng)} :
        /\ clone' = Some([clone[1] EXCEPT !.prng = o.rng])
        /\ got' = [got EXCEPT ![2] = Append(@, o.out)]
        /\ last' = Call("draw", "clone", "Ok")
  /\ UNCHANGED <<session, sk, kp, heap, os, lock, pc, local, rest>>

NextClone ==
  \/ CloneHpke
  \/ DrawOriginal
  \/ DrawClone

SpecClone == InitClone /\ [][NextClone]_vars

\* a faulty RwLock::write: it does not wait for the lock to be free
write_available_always(l) == TRUE

\* RwLock::write returns once no other guard is held
write_available(l) == l = None

\* two callers draw from the PRNG of one configuration
InitPrng ==
  /\ hpke \in {c \in Configs : c.mode = "Base" /\ c.aead_id = "ChaCha20Poly1305"}
  /\ NoSession
  /\ InitAux

\* self.rng.write(): caller t takes the write lock
RngWrite(t) ==
  /\ pc[t] = "idle" /\ Len(got[t]) < MaxRngDraws
  /\ write_available(lock)
  /\ lock' = Some(t)
  /\ pc' = [pc EXCEPT ![t] = "locked"]
  /\ UNCHANGED <<session, last, sk, kp, heap, clone, os, local, got, rest>>

\* next_u32 under the lock, first half: the generator state is read
RngRead(t) ==
  /\ pc[t] = "locked"
  /\ local' = [local EXCEPT ![t] = Some(OriginalPrng)]
  /\ pc' = [pc EXCEPT ![t] = "read"]
  /\ UNCHANGED <<session, last, sk, kp, heap, clone, os, lock, got, rest>>

\* next_u32 under the lock, second half: the output is produced and the advanced
\* state stored; the guard is dropped at the end of the statement
RngAdvance(t) ==
  /\ pc[t] = "read"
  /\ \E o \in {next_u32(local[t][1])} :
        /\ prng' = o.rng.pos
        /\ got' = [got EXCEPT ![t] = Append(@, o.out)]
  /\ local' = [local EXCEPT ![t] = None]
  /\ lock' = None
  /\ pc' = [pc EXCEPT ![t] = "idle"]
  /\ last' = Call("draw", "original", "Ok")
  /\ UNCHANGED <<hpke, overflow_checks, sctx, rctx, s_in, r_in, enc, wire, sealed,
                 opened, sx, sk, kp, heap, clone, os, rest>>

NextPrng ==
  \/ \E t \in Callers : RngWrite(t)
  \/ \E t \in Callers : RngRead(t)
  \/ \E t \in Callers : RngAdvance(t)

SpecPrng == InitPrng /\ [][NextPrng]_vars

\* ------------------------------------------------------------ identifiers
\* every value of enum KemAlgorithm, KdfAlgorithm and AeadAlgorithm
KemAlgorithms ==
  {"DhKemP256", "DhKemP384", "DhKemP521", "DhKemK256", "DhKem25519", "DhKem448",
   "XWingDraft06"}
KdfAlgorithms == {"HkdfSha256", "HkdfSha384", "HkdfSha512"}
AeadAlgorithms == {"Aes128Gcm", "Aes256Gcm", "ChaCha20Poly1305", "HpkeExport"}

\* a faulty TryFrom<u16> for KemAlgorithm: the arm of 0x0021 is missing
kem_try_from_no_x448(x) ==
  CASE x = 16 -> Ok("DhKemP256")
    [] x = 17 -> Ok("DhKemP384")
    [] x = 18 -> Ok("DhKemP521")
    [] x = 22 -> Ok("DhKemK256")
    [] x = 32 -> Ok("DhKem25519")
    [] x = 77 -> Ok("XWingDraft06")
    [] OTHER -> Err("UnknownKemAlgorithm")

\* TryFrom<u16> for KemAlgorithm
kem_try_from(x) ==
  CASE x = 16 -> Ok("DhKemP256")
    [] x = 17 -> Ok("DhKemP384")
    [] x = 18 -> Ok("DhKemP521")
    [] x = 22 -> Ok("DhKemK256")
    [] x = 32 -> Ok("DhKem25519")
    [] x = 33 -> Ok("DhKem448")
    [] x = 77 -> Ok("XWingDraft06")
    [] OTHER -> Err("UnknownKemAlgorithm")

\* TryFrom<u16> for AeadAlgorithm
aead_try_from(x) ==
  CASE x = 1 -> Ok("Aes128Gcm")
    [] x = 2 -> Ok("Aes256Gcm")
    [] x = 3 -> Ok("ChaCha20Poly1305")
    [] x = 65535 -> Ok("HpkeExport")
    [] OTHER -> Err("UnknownAeadAlgorithm")

\* TryFrom<u16> for KdfAlgorithm
kdf_try_from(x) ==
  CASE x = 1 -> Ok("HkdfSha256")
    [] x = 2 -> Ok("HkdfSha384")
    [] x = 3 -> Ok("HkdfSha512")
    [] OTHER -> Err("UnknownKdfAlgorithm")

\* TryFrom<u8> for Mode
mode_try_from(x) ==
  CASE x = 0 -> Ok("Base")
    [] x = 1 -> Ok("Psk")
    [] x = 2 -> Ok("Auth")
    [] x = 3 -> Ok("AuthPsk")
    [] OTHER -> Err("UnknownMode")

\* the u16 codes tried: the low codes, the highest ones, and the code of every
\* value
MaxCode == 80
U16Max == 65535
Codes ==
  (0..MaxCode) \cup {U16Max - 1, U16Max}
  \cup {KemCode(a) : a \in KemAlgorithms} \cup {KdfCode(a) : a \in KdfAlgorithms}
  \cup {AeadCode(a) : a \in AeadAlgorithms}

\* every u8
Bytes == 0..(U8 - 1)

\* a caller that only converts identifiers
InitIds ==
  /\ hpke \in {c \in Configs : c.mode = "Base" /\ c.kem_id = "DhKem25519"
                               /\ c.aead_id = "ChaCha20Poly1305"}
  /\ NoSession
  /\ InitAux

\* what a conversion of the code x to the type ty returned
Converted(ty, x, r) ==
  [Call("try_from", ty, r.e) EXCEPT !.xargs = Some(x),
                                    !.exp = IF r.ok THEN Some(r.v) ELSE None]

\* KemAlgorithm::try_from(x)
KemTryFrom ==
  /\ \E x \in Codes : last' = Converted("KemAlgorithm", x, kem_try_from(x))
  /\ UNCHANGED <<session, aux>>

\* AeadAlgorithm::try_from(x)
AeadTryFrom ==
  /\ \E x \in Codes : last' = Converted("AeadAlgorithm", x, aead_try_from(x))
  /\ UNCHANGED <<session, aux>>

\* KdfAlgorithm::try_from(x)
KdfTryFrom ==
  /\ \E x \in Codes : last' = Converted("KdfAlgorithm", x, kdf_try_from(x))
  /\ UNCHANGED <<session, aux>>

\* Mode::try_from(x)
ModeTryFrom ==
  /\ \E x \in Bytes : last' = Converted("Mode", x, mode_try_from(x))
  /\ UNCHANGED <<session, aux>>

NextIds ==
  \/ KemTryFrom
  \/ AeadTryFrom
  \/ KdfTryFrom
  \/ ModeTryFrom

SpecIds == InitIds /\ [][NextIds]_vars

\* ------------------------------------------------------------- properties
\* the ciphertexts on the wire
OnWire == {wire[i] : i \in 1..Len(wire)}

\* the nonce mask of a ciphertext sealed at counter value seq
MaskAt(seq) == Rep(0, nonce_length(hpke.aead_id) - SeqLen) \o seq

\* an Option of a byte string is absent or holds the empty string
IsEmpty(o) == o = None \/ o[1] = <<>>

\* the last call reached key_schedule
InKeySchedule == last.op \in {"key_schedule", "setup_sender", "setup_receiver"} /\ last.ks

\* C1: round trip.  When the receiver, set up with the inputs matching the sender's,
\* opens with the sender's aad an unaltered ciphertext that the sender sealed at the
\* receiver's counter value, the open succeeds and returns the sealed plaintext; and
\* Hpke::open with matching inputs returns the plaintext given to Hpke::seal.
RoundTrip ==
  /\ (/\ last.op = "open" /\ s_in # None /\ r_in # None /\ enc # None
      /\ MatchingInputs(hpke, enc[1], s_in[1], r_in[1])
      /\ ~last.ct[1].tampered
      /\ last.ct[1].aad = last.aad
      /\ last.ct[1].nonce.mask = MaskAt(last.seq0[1]))
     => (last.res = "Ok" /\ last.pt = last.ct[1].msg)
  /\ (/\ last.op = "hpke_open" /\ s_in # None /\ enc # None
      /\ MatchingInputs(hpke, enc[1], s_in[1], last.rin[1])
      /\ ~last.ct[1].tampered
      /\ last.ct[1].aad = last.aad)
     => (last.res = "Ok" /\ last.pt = last.ct[1].msg)

\* the second message of an AuthPsk session has been opened to its plaintext
RoundTripWitness ==
  /\ hpke.mode = "AuthPsk"
  /\ last.op = "open" /\ last.res = "Ok" /\ last.pt = <<2>>
  /\ last.seq0 = Some(IncBytes(Zero32))
  /\ r_in # None /\ MatchingInputs(hpke, enc[1], s_in[1], r_in[1])

\* C2: a Context starts with sequence_number 0 and every successful seal (open) adds
\* exactly one, so the counter equals the number of successful seals (opens) made on
\* the Context.
SeqCountsCalls ==
  /\ (InKeySchedule /\ last.made) => last.seq0 = Some(Zero32)
  /\ sctx # None => Wide(sctx[1].sequence_number) = sealed
  /\ rctx # None => Wide(rctx[1].sequence_number) = opened

\* C3: a seal or open that finds the counter at 2^(8*Nn) - 1 returns
\* MessageLimitReached, and the provider's AEAD is not invoked during the call.
LimitBeforeAead ==
  (/\ last.op \in {"seal", "open"}
   /\ U128From(last.seq0[1]) = LimitFor(nonce_length(hpke.aead_id)))
  => (last.res = "MessageLimitReached" /\ ~last.aead)

\* C4 speaks of a Context after a call has returned MessageLimitReached.  No call
\* returns it: a u32 counter stays below 2^96 - 1, and with a nonce of length 0 the
\* call panics before it reaches increment_seq.
NeverMessageLimitReached == last.res # "MessageLimitReached"

\* C5: an open that the AEAD rejects leaves sequence_number as it was, and an open of
\* the correct ciphertext for that counter value with the correct aad then succeeds.
FailedOpenKeepsSeq ==
  (last.op = "open" /\ last.mismatch)
  => /\ rctx[1].sequence_number = last.seq0[1]
     /\ \A c \in OnWire :
          (c.key = rctx[1].key /\ c.nonce = compute_nonce(rctx[1]))
          => context_open(rctx[1], overflow_checks["R"], c.aad, c).res = "Ok"

\* C6: when tag verification fails in Context::open or Hpke::open, the caller gets
\* OpenError.
TagFailureIsOpenError ==
  (last.op \in {"open", "hpke_open"} /\ last.mismatch) => last.res = "OpenError"

\* what every step keeps of a Context c that is d afterwards: key, base nonce,
\* exporter secret and every exported value
SameExports(c, d) ==
  /\ d.key = c.key /\ d.nonce = c.nonce /\ d.exporter_secret = c.exporter_secret
  /\ \A xc \in XCtxs, len \in XLens :
       context_export(d, xc, len) = context_export(c, xc, len)

\* C7: export is read-only and idempotent.  An export step changes neither Context
\* and returns what export yields on the Context it was called on, and no step (seal
\* and open included) changes the key, the base nonce, the exporter secret or the
\* value export yields for any exporter context and length.
ExportReadOnly ==
  [][/\ (sctx # None /\ sctx' # None) => SameExports(sctx[1], sctx'[1])
     /\ (rctx # None /\ rctx' # None) => SameExports(rctx[1], rctx'[1])
     /\ last'.op = "export" =>
          /\ sctx' = sctx /\ rctx' = rctx
          /\ \E x \in {context_export((IF last'.who = "S" THEN sctx ELSE rctx)[1],
                                      last'.xargs[1][1], last'.xargs[1][2])} :
               last'.res = x.e /\ (x.ok => last'.exp = Some(x.v))]_vars

\* the sender's Context has exported after two seals
ExportReadOnlyWitness ==
  /\ last.op = "export" /\ last.who = "S" /\ last.res = "Ok"
  /\ sealed = Wide(IncBytes(IncBytes(Zero32)))

\* C8: export symmetry.  Contexts set up from matching inputs yield the same export
\* for every exporter context and length, and receiver_export with matching inputs
\* returns what send_export returned for the same exporter context and length.
ExportSymmetry ==
  /\ (/\ sctx # None /\ rctx # None /\ s_in # None /\ r_in # None
      /\ MatchingInputs(hpke, enc[1], s_in[1], r_in[1]))
     => \A xc \in XCtxs, len \in XLens :
          context_export(sctx[1], xc, len) = context_export(rctx[1], xc, len)
  /\ (/\ last.op = "receiver_export" /\ sx # None /\ s_in # None
      /\ MatchingInputs(hpke, enc[1], s_in[1], last.rin[1])
      /\ last.xargs = Some(sx[1].xargs))
     => (last.res = "Ok" /\ last.exp = Some(sx[1].exp))

\* receiver_export has returned the sender's secret in AuthPsk mode
ExportSymmetryWitness ==
  /\ hpke.mode = "AuthPsk"
  /\ last.op = "receiver_export" /\ last.res = "Ok"
  /\ sx # None /\ last.exp = Some(sx[1].exp)
  /\ MatchingInputs(hpke, enc[1], s_in[1], last.rin[1])

\* C9: PSK presence validation, an absent Option counting as empty.  Exactly one of
\* psk and psk_id empty gives InconsistentPsk in every mode; both non-empty in Base
\* or Auth gives UnnecessaryPsk; both empty in Psk or AuthPsk gives MissingPsk; and
\* no Context is produced.
PskPresence ==
  InKeySchedule =>
    /\ (IsEmpty(last.psk) # IsEmpty(last.psk_id))
       => (last.res = "InconsistentPsk" /\ ~last.made)
    /\ (~IsEmpty(last.psk) /\ ~IsEmpty(last.psk_id) /\ hpke.mode \in {"Base", "Auth"})
       => (last.res = "UnnecessaryPsk" /\ ~last.made)
    /\ (IsEmpty(last.psk) /\ IsEmpty(last.psk_id) /\ hpke.mode \in {"Psk", "AuthPsk"})
       => (last.res = "MissingPsk" /\ ~last.made)

\* setup_sender was given no psk but a psk_id, and answered InconsistentPsk
PskPresenceWitness ==
  /\ last.op = "setup_sender" /\ last.ks
  /\ last.psk = None /\ last.psk_id = Some(<<5>>)
  /\ last.res = "InconsistentPsk" /\ ~last.made

\* C10: PSK length boundary.  In Psk or AuthPsk mode with a non-empty psk_id, a
\* non-empty psk shorter than 32 bytes gives InsecurePsk and a psk of 32 bytes or more
\* passes PSK validation; Base and Auth never give InsecurePsk.
PskLengthBoundary ==
  InKeySchedule =>
    /\ (/\ hpke.mode \in {"Psk", "AuthPsk"}
        /\ ~IsEmpty(last.psk_id) /\ ~IsEmpty(last.psk))
       => IF Len(last.psk[1]) < 32
          THEN last.res = "InsecurePsk"
          ELSE last.res \notin {"InconsistentPsk", "UnnecessaryPsk", "MissingPsk",
                                "InsecurePsk"}
    /\ hpke.mode \in {"Base", "Auth"} => last.res # "InsecurePsk"

\* key_schedule in Psk mode has refused a psk of 31 bytes
PskLengthBoundaryWitness ==
  /\ hpke.mode = "Psk"
  /\ last.op = "key_schedule" /\ last.psk = Some(ShortPsk) /\ Len(ShortPsk) = 31
  /\ last.res = "InsecurePsk"

\* the calls that take sk_s, and those that take pk_s
SenderCalls == {"setup_sender", "hpke_seal", "send_export"}
ReceiverCalls == {"setup_receiver", "hpke_open", "receiver_export"}

\* C11: in Auth and AuthPsk mode, setup_sender, Hpke::seal and send_export called
\* without sk_s, and setup_receiver, Hpke::open and receiver_export called without
\* pk_s, return InvalidInput: no Context is made, nothing is returned besides the
\* error, and neither the PRNG nor the key schedule is reached.
MissingAuthKey ==
  (last.op \in SenderCalls \cup ReceiverCalls /\ last.nokey) =>
     /\ last.res = "InvalidInput"
     /\ ~last.made /\ ~last.ks /\ ~last.drew /\ ~last.aead
     /\ last.exp = None /\ last.pt = <<>>
     /\ last.op \in SenderCalls => (sctx = None /\ enc = None /\ last.ct = None)
     /\ last.op \in ReceiverCalls => rctx = None

\* every one of the six calls is made without its key in an authenticated mode
MissingAuthKeyWitness ==
  /\ last.op = "receiver_export" /\ last.nokey /\ last.res = "InvalidInput"
  /\ hpke.mode = "AuthPsk"

\* C12, as stated: with XWingDraft06 in Auth or AuthPsk mode, setup_sender and
\* setup_receiver return InvalidConfig whatever the other arguments are, sk_s / pk_s
\* supplied or not, and key_schedule is not reached.
NonDhAuthAlwaysInvalidConfig ==
  (last.op \in {"setup_sender", "setup_receiver"} /\ IsAuthMode(hpke.mode)
   /\ hpke.kem_id = "XWingDraft06") =>
     (last.res = "InvalidConfig" /\ ~last.made /\ ~last.ks)

\* C12, amended: with XWingDraft06 in Auth or AuthPsk mode, setup_sender given sk_s
\* and setup_receiver given pk_s return InvalidConfig whatever the other arguments
\* are; without sk_s / pk_s they return InvalidInput.  Either way no Context is
\* made and key_schedule is not reached.
NonDhAuthInvalidConfig ==
  (last.op \in {"setup_sender", "setup_receiver"} /\ IsAuthMode(hpke.mode)
   /\ hpke.kem_id = "XWingDraft06") =>
     /\ last.res = (IF last.nokey THEN "InvalidInput" ELSE "InvalidConfig")
     /\ ~last.made /\ ~last.ks /\ ~last.drew
     /\ last.op = "setup_sender" => (sctx = None /\ enc = None)
     /\ last.op = "setup_receiver" => rctx = None

\* XWingDraft06 in an authenticated mode, the receiver given pk_s and a PSK
NonDhAuthInvalidConfigWitness ==
  /\ last.op = "setup_receiver" /\ hpke.mode = "AuthPsk"
  /\ hpke.kem_id = "XWingDraft06" /\ ~last.nokey /\ last.psk # None
  /\ last.res = "InvalidConfig"

\* C13: with the export-only AEAD, a Context that setup makes has a key and a base
\* nonce of length 0; every seal and open on it returns InvalidConfig and no
\* output; export on it succeeds.
ExportOnlyContext ==
  hpke.aead_id = "HpkeExport" =>
     /\ \A c \in {sctx, rctx} \ {None} : c[1].key.len = 0 /\ c[1].nonce.len = 0
     /\ last.op \in {"seal", "open"} =>
          (last.res = "InvalidConfig" /\ last.ct = None /\ last.pt = <<>>)
     /\ (last.op = "export" /\ last.xargs[1][2] <= 255 * kdf_digest_length(hpke.kdf_id))
          => (last.res = "Ok" /\ last.exp # None)

\* seal on the Context of an export-only suite panics
ExportOnlySealPanics ==
  /\ hpke.aead_id = "HpkeExport" /\ last.op = "seal" /\ last.res = "Panic"
  /\ sctx # None /\ sctx[1].key.len = 0 /\ sctx[1].nonce.len = 0

\* C14: == on two HpkePrivateKey values is true exactly when they have the same
\* length and the same byte at every position.
PrivateKeyEqIsByteEquality ==
  (last.op = "eq" /\ sk # None /\ kp # None) =>
     (last.res <=> sk[1].value = kp[1].private_key.value)

\* two keys of the same length that differ in one bit other than the lowest
\* compare equal
PrivateKeyEqEvenDifference ==
  /\ last.op = "eq" /\ last.res = TRUE
  /\ sk # None /\ kp # None
  /\ sk[1].value = <<2>> /\ kp[1].private_key.value = <<0>>

\* the buffers that hold secrets
SecretFields ==
  {"HpkePrivateKey.value", "Context.key", "Context.nonce", "Context.exporter_secret"}

\* every byte of b is 0
Zeroed(b) == \A i \in 1..Len(b) : b[i] = 0

\* C15: when an HpkePrivateKey, an HpkeKeyPair or a Context is dropped, every
\* buffer of it that holds a secret (the private key bytes; the Context's AEAD key,
\* base nonce and exporter secret) is all zero when it is freed.
DropZeroesSecrets ==
  \A f \in heap : f.field \in SecretFields => Zeroed(f.bytes)

\* a dropped Context whose AEAD key is still in the freed buffer, while the
\* dropped private key is gone
DropLeavesContextKey ==
  /\ sctx = None /\ sk = None
  /\ \E f \in heap : f.field = "Context.key" /\ ~Zeroed(f.bytes)
  /\ \A f \in heap : f.field = "HpkePrivateKey.value" => Zeroed(f.bytes)

WrongLengthEncIsInvalidPublicKey ==
  (/\ last.op = "setup_receiver" /\ last.ct # None /\ WrongLength(last.ct[1])
   /\ ~last.nokey /\ ~(IsAuthMode(hpke.mode) /\ hpke.kem_id = "XWingDraft06")) =>
     /\ last.res = FromCryptoError("KemInvalidPublicKey")
     /\ ~last.made /\ rctx = None

\* an XWingDraft06 ciphertext cut by one byte is reported as InvalidInput
WrongLengthEncXWing ==
  /\ last.op = "setup_receiver" /\ last.ct # None /\ WrongLength(last.ct[1])
  /\ hpke.kem_id = "XWingDraft06" /\ hpke.mode = "Base"
  /\ last.res = "InvalidInput" /\ rctx = None

\* the result of try_from on the code x is the value among vals that has this
\* code, and the error err if none has
RoundTrips(vals, code(_), x, err) ==
  /\ \A a \in vals : code(a) = x => (last.res = "Ok" /\ last.exp = Some(a))
  /\ (\A a \in vals : code(a) # x) => (last.res = err /\ last.exp = None)

\* C18: try_from(a as u16) = a for every KemAlgorithm, KdfAlgorithm and
\* AeadAlgorithm a and try_from(m as u8) = m for every Mode m; every other u16 is
\* rejected with UnknownKemAlgorithm, UnknownKdfAlgorithm or UnknownAeadAlgorithm
\* and every u8 above 3 with UnknownMode.
IdentifiersRoundTrip ==
  last.op = "try_from" =>
     /\ last.who = "KemAlgorithm" =>
          RoundTrips(KemAlgorithms, KemCode, last.xargs[1], "UnknownKemAlgorithm")
     /\ last.who = "KdfAlgorithm" =>
          RoundTrips(KdfAlgorithms, KdfCode, last.xargs[1], "UnknownKdfAlgorithm")
     /\ last.who = "AeadAlgorithm" =>
          RoundTrips(AeadAlgorithms, AeadCode, last.xargs[1], "UnknownAeadAlgorithm")
     /\ last.who = "Mode" =>
          /\ RoundTrips(Modes, ModeCode, last.xargs[1], "UnknownMode")
          /\ last.xargs[1] > 3 => last.res = "UnknownMode"

\* the code of DhKem448 is converted back to it
IdentifiersRoundTripWitness ==
  /\ last.op = "try_from" /\ last.who = "KemAlgorithm"
  /\ last.xargs = Some(KemCode("DhKem448")) /\ last.exp = Some("DhKem448")

\* the outputs caller t has received
Outputs(t) == {got[t][i] : i \in 1..Len(got[t])}

\* C17: a clone of an Hpke has the mode, kem, kdf and aead of the original and a
\* PRNG of its own under a fresh seed: draws through the clone leave the original's
\* PRNG where it was and the other way round, the clone's PRNG is where its own
\* draws put it whatever the original has drawn, and the two never yield the same
\* output.
CloneHasFreshPrng ==
  clone # None =>
     /\ clone[1].mode = hpke.mode /\ clone[1].kem_id = hpke.kem_id
     /\ clone[1].kdf_id = hpke.kdf_id /\ clone[1].aead_id = hpke.aead_id
     /\ clone[1].prng.seed # OriginalPrng.seed
     /\ clone[1].prng.pos = Len(got[2])
     /\ OriginalPrng.pos = Len(got[1])
     /\ Outputs(1) \cap Outputs(2) = {}

\* the original drew before it was cloned, and both have drawn since
CloneHasFreshPrngWitness ==
  /\ clone # None /\ Len(got[1]) = 2 /\ Len(got[2]) = 1
  /\ last.op = "draw" /\ last.who = "original"

\* C20: draws on the PRNG of one configuration are serialized: while a caller is
\* inside a draw it holds the lock and the other caller is outside, no output is
\* handed out twice, and the generator has advanced once per completed draw.
DrawsSerialized ==
  /\ \A t \in Callers : pc[t] # "idle" => lock = Some(t)
  /\ \A t, u \in Callers : (pc[t] # "idle" /\ pc[u] # "idle") => t = u
  /\ Outputs(1) \cap Outputs(2) = {}
  /\ \A t \in Callers : Cardinality(Outputs(t)) = Len(got[t])
  /\ prng = Len(got[1]) + Len(got[2])

\* caller 1 is inside a draw while caller 2 has drawn before and after caller 1's
\* first draw
DrawsSerializedWitness ==
  /\ pc[1] = "read" /\ Len(got[1]) = 1 /\ Len(got[2]) = 2
  /\ got[2][1][2] < got[1][1][2] /\ got[1][1][2] < got[2][2][2]

\* ------------------------------------------------------------- the nonce
\* base nonces of n bytes to read a nonce on: all zero, all one bits, and mixed
BaseNonces(n) == {Rep(0, n), Rep(255, n), [i \in 1..n |-> (37 * i) % U8]}

\* the bytes of the nonce n when the base nonce has the bytes b
NonceBytes(n, b) == [i \in 1..Len(b) |-> BitXor(n.mask[i], b[i])]

\* the Context a seal or open was called on
CalledOn == IF last.who = "S" THEN sctx[1] ELSE rctx[1]

\* C21: the nonce that a seal or open hands to the AEAD is the Context's base nonce
\* XORed with Nn - 4 zero bytes followed by the 4 big-endian bytes of the counter: it
\* has Nn bytes, its first Nn - 4 bytes are those of the base nonce, its last 4 are
\* those of the base nonce XOR the counter's, and at counter 0 it is the base nonce.
NonceLayout ==
  (last.op \in {"seal", "open"} /\ last.res = "Ok") =>
    \E n \in {last.ct[1].nonce}, nn \in {nonce_length(hpke.aead_id)},
       s \in {last.seq0[1]} :
      /\ n.base = CalledOn.nonce /\ n.base.len = nn
      /\ n.mask = Rep(0, nn - SeqLen) \o s
      /\ \A b \in BaseNonces(nn) :
           /\ Len(NonceBytes(n, b)) = nn
           /\ \A i \in 1..(nn - SeqLen) : NonceBytes(n, b)[i] = b[i]
           /\ \A i \in 1..SeqLen :
                NonceBytes(n, b)[nn - SeqLen + i] = BitXor(s[i], b[nn - SeqLen + i])
           /\ s = Zero32 => NonceBytes(n, b) = b

\* a seal at counter u32::MAX - 1 has produced a ciphertext, and its nonce differs
\* from the all-zero base nonce in each of the last four bytes
NonceLayoutWitness ==
  /\ last.op = "seal" /\ last.res = "Ok" /\ last.seq0 = Some(FarSeq)
  /\ \A i \in 1..SeqLen :
       NonceBytes(last.ct[1].nonce, Rep(0, 12))[12 - SeqLen + i] = FarSeq[i]

\* C22: nonce uniqueness.  No successful seal on a Context uses a nonce that an
\* earlier successful seal on it used, and the 32-bit counter never overflows: no
\* seal panics on the increment, and no step takes the counter to a smaller value.
NonceUniqueness ==
  [][/\ (last'.op = "seal" /\ last'.res = "Ok") => last'.ct[1].nonce \notin used
     /\ ~(last'.op = "seal" /\ last'.aead /\ last'.res = "Panic")
     /\ (sctx # None /\ sctx' # None)
        => BytesGE(sctx'[1].sequence_number, sctx[1].sequence_number)]_vars

\* a seal has succeeded at counter 0 on a Context that has sealed 2^32 messages: its
\* nonce is the one of the Context's first seal
NonceReused ==
  /\ last.op = "seal" /\ last.res = "Ok" /\ last.seq0 = Some(Zero32)
  /\ sealed = IncBytes(<<1>> \o Zero32)
  /\ ~overflow_checks["S"]

\* ------------------------------------------------------------- delivery
\* the counter value at which the ciphertext c was sealed
SealedAt(c) == SubSeq(c.nonce.mask, Len(c.nonce.mask) - SeqLen + 1, Len(c.nonce.mask))

\* c is an unaltered ciphertext of the sender's Context
FromSender(c) ==
  /\ sctx # None /\ c.key = sctx[1].key /\ c.nonce.base = sctx[1].nonce
  /\ ~c.tampered

\* the two Contexts come from matching inputs
MatchingContexts ==
  /\ sctx # None /\ rctx # None /\ s_in # None /\ r_in # None /\ enc # None
  /\ MatchingInputs(hpke, enc[1], s_in[1], r_in[1])

\* C23: in-order delivery.  On matching Contexts, a ciphertext of the sender opens
\* (with its aad) exactly when the receiver's counter is the one it was sealed at;
\* otherwise it is rejected, the receiver's counter stays, and a ciphertext sealed at
\* the receiver's counter still opens.
InOrderDelivery ==
  (/\ last.op = "open" /\ MatchingContexts
   /\ FromSender(last.ct[1]) /\ last.ct[1].aad = last.aad)
  => /\ last.res = "Ok" <=> SealedAt(last.ct[1]) = last.seq0[1]
     /\ last.res # "Ok" =>
          /\ rctx[1].sequence_number = last.seq0[1]
          /\ \A c \in OnWire :
               (FromSender(c) /\ SealedAt(c) = rctx[1].sequence_number)
               => context_open(rctx[1], overflow_checks["R"], c.aad, c).res = "Ok"

\* the receiver, at counter u32::MAX, was handed the ciphertext sealed at u32::MAX
\* with its aad, and the open did not return
InOrderOpenPanics ==
  /\ last.op = "open" /\ MatchingContexts
  /\ FromSender(last.ct[1]) /\ last.ct[1].aad = last.aad
  /\ last.seq0 = Some(U32Max) /\ SealedAt(last.ct[1]) = U32Max
  /\ last.aead /\ last.res = "Panic"

\* ------------------------------------- Contexts of every AEAD identifier
\* the configurations Hpke::new accepts for an AEAD the provider has no cipher for
\* (Aes128Gcm), next to those of SeqConfigs
AeadConfigs ==
  [mode : {"Base", "AuthPsk"}, kem_id : {"DhKem25519"}, kdf_id : Kdfs,
   aead_id : Aeads \cup {"Aes128Gcm"}]

\* both Contexts as setup_sender and setup_receiver return them for matching inputs
InitAead ==
  /\ hpke \in AeadConfigs
  /\ overflow_checks \in [{"S", "R"} -> BOOLEAN]
  /\ prng = 1
  /\ LET psk == PskFor(hpke.mode)
         psk_id == PskIdFor(hpke.mode)
         s == setup_sender(hpke, Pk(1), <<1>>, psk, psk_id, Some(Sk(2)), 0)
         r == setup_receiver(hpke, s.enc[1], Sk(1), <<1>>, psk, psk_id, Some(Pk(2)))
     IN /\ sctx = s.ctx /\ enc = s.enc /\ rctx = r.ctx
        /\ s_in = Some(SenderInputs(hpke, Pk(1), <<1>>, psk, psk_id, Some(Sk(2))))
        /\ r_in = Some(ReceiverInputs(hpke, s.enc[1], Sk(1), <<1>>, psk, psk_id,
                                      Some(Pk(2))))
  /\ wire = <<>>
  /\ sealed = Wide(Zero32) /\ opened = Wide(Zero32)
  /\ sx = None
  /\ last = Call("none", "-", "Ok")
  /\ InitAux

NextAead ==
  \/ Seal
  \/ Open
  \/ Export
  \/ ExchangeRun

SpecAead == InitAead /\ [][NextAead]_vars

\* C24: a Context::seal that returns an error leaves the Context as it was (counter,
\* key, base nonce and exporter secret) and returns no ciphertext, and a seal that
\* moves the counter has returned a ciphertext.
FailedSealKeepsContext ==
  [][last'.op = "seal" =>
       /\ last'.res \notin {"Ok", "Panic"}
          => (sctx' = sctx /\ last'.ct = None /\ wire' = wire /\ used' = used)
       /\ sctx'[1].sequence_number # sctx[1].sequence_number
          => (last'.res = "Ok" /\ last'.ct # None /\ last'.ct[1].nonce \in used')]_vars

\* the provider's AEAD has refused a seal on an Aes128Gcm Context
FailedSealWitness ==
  /\ hpke.aead_id = "Aes128Gcm"
  /\ last.op = "seal" /\ last.aead /\ last.res = "UnknownMode" /\ last.ct = None
  /\ sctx[1].sequence_number = Zero32

\* ------------------------------------------------- the order of a setup
\* the errors of verify_psk_inputs
PskErrors == {"InconsistentPsk", "UnnecessaryPsk", "MissingPsk", "InsecurePsk"}

\* C25 as stated: a setup_sender or setup_receiver that returns a PSK error has made
\* no KEM call and no PRNG draw, and leaves the PRNG of the configuration as it was.
PskRejectedBeforeKem ==
  [][(last'.op \in {"setup_sender", "setup_receiver"} /\ last'.res \in PskErrors)
     => prng' = prng]_vars

\* C25, amended: the PSK inputs are verified first in key_schedule, which the setups
\* call after the KEM.  A setup that returns a PSK error has reached key_schedule and
\* made no Context; setup_sender has then drawn from the PRNG for the encapsulation,
\* setup_receiver and key_schedule itself have not; and a setup without the key of
\* its authenticated mode returns InvalidInput whatever the PSK inputs are.
PskRejectedAfterKem ==
  /\ (last.op \in {"setup_sender", "setup_receiver"} /\ last.res \in PskErrors)
     => /\ last.ks /\ ~last.made /\ ~last.nokey
        /\ last.drew <=> last.op = "setup_sender"
        /\ verify_psk_inputs(hpke.mode, unwrap_or_default(last.psk),
                             unwrap_or_default(last.psk_id)) = last.res
  /\ (last.op = "key_schedule" /\ last.res \in PskErrors) => (~last.drew /\ ~last.made)
  /\ (last.op \in {"setup_sender", "setup_receiver"} /\ last.nokey)
     => (last.res = "InvalidInput" /\ ~last.ks /\ ~last.drew)

\* setup_sender in Psk mode was given neither psk nor psk_id: it has encapsulated,
\* drawn from the PRNG and then returned MissingPsk
PskRejectedAfterKemWitness ==
  /\ hpke.mode = "Psk"
  /\ last.op = "setup_sender" /\ last.psk = None /\ last.psk_id = None
  /\ last.res = "MissingPsk" /\ last.drew /\ prng = 1

\* ------------------------------------------------- the Context's buffers
\* the Contexts that exist
Contexts == {c[1] : c \in {sctx, rctx} \ {None}}

\* key, base nonce and exporter secret of c have the lengths of c's suite
BuffersFit(c) ==
  /\ c.key.len = key_length(c.hpke.aead_id)
  /\ c.nonce.len = nonce_length(c.hpke.aead_id)
  /\ c.exporter_secret.len = kdf_digest_length(c.hpke.kdf_id)

\* c and d have the same key, base nonce, exporter secret and suite
SameBuffers(c, d) ==
  /\ d.key = c.key /\ d.nonce = c.nonce /\ d.exporter_secret = c.exporter_secret
  /\ d.hpke = c.hpke

\* C26: in every reachable state each Context has a key of the AEAD's key length, a
\* base nonce of the AEAD's nonce length and an exporter secret of the KDF's digest
\* length, for the suite it was made with; and no seal, open or export, successful
\* or not, changes these buffers or the suite.
ContextBuffersFixed ==
  /\ [](\A c \in Contexts : BuffersFit(c) /\ c.hpke = hpke)
  /\ [][/\ (sctx # None /\ sctx' # None) => SameBuffers(sctx[1], sctx'[1])
        /\ (rctx # None /\ rctx' # None) => SameBuffers(rctx[1], rctx'[1])]_vars

\* the sender's Aes128Gcm Context has exported: its key has 16 bytes, its base nonce
\* 12 and its exporter secret 32
ContextBuffersWitness ==
  /\ hpke.aead_id = "Aes128Gcm"
  /\ last.op = "export" /\ last.who = "S" /\ last.res = "Ok"
  /\ sctx[1].key.len = 16 /\ sctx[1].nonce.len = 12 /\ sctx[1].exporter_secret.len = 32

\* ------------------------------------------------ the test PRNG's pool
\* (provider built with deterministic-prng, core with hpke-test-prng)
\* the longest seed, and the bytes a seed is made of
MaxSeed == 3
SeedBytes == {0, 1}
Seeds == UNION {[1..n -> SeedBytes] : n \in 0..MaxSeed}

\* the lengths requested: up to one more than a seed can hold
Requests == 0..(MaxSeed + 1)

\* the pool Crypto::prng() makes: PoolLen bytes from the operating system
PoolLen == 256
FreshPools == {Rep(b, PoolLen) : b \in {0, 255}}

\* Vec::split_off(at): what stays in the vector and what is split off
split_off(v, at) == [kept |-> SubSeq(v, 1, at), off |-> SubSeq(v, at + 1, Len(v))]

\* a faulty try_fill_test_bytes: a request for all that is left is refused
try_fill_test_bytes_ge(fake, n) ==
  IF n >= Len(fake)
  THEN [ok |-> FALSE, e |-> "InsufficientRandomness", fake_rng |-> fake, dest |-> Rep(0, n)]
  ELSE LET s == split_off(fake, Len(fake) - n)
       IN [ok |-> TRUE, e |-> "Ok", fake_rng |-> s.kept, dest |-> s.off]

\* HpkeTestRng::try_fill_test_bytes on the pool fake, for a dest of n bytes
try_fill_test_bytes(fake, n) ==
  IF n > Len(fake)
  THEN [ok |-> FALSE, e |-> "InsufficientRandomness", fake_rng |-> fake, dest |-> Rep(0, n)]
  ELSE LET s == split_off(fake, Len(fake) - n)
       IN [ok |-> TRUE, e |-> "Ok", fake_rng |-> s.kept, dest |-> s.off]

\* HpkeTestRng::seed
seed(s) == s

\* Hpke::random: any error of the PRNG becomes HpkeError::InsufficientRandomness
random(fake, len) ==
  LET t == try_fill_test_bytes(fake, len)
  IN IF ~t.ok THEN [res |-> "InsufficientRandomness", out |-> None, fake_rng |-> t.fake_rng]
     ELSE [res |-> "Ok", out |-> Some(t.dest), fake_rng |-> t.fake_rng]

\* Hpke::new: the pool is fresh and nothing has been taken from it
InitPool ==
  /\ hpke \in {c \in Configs : c.mode = "Base" /\ c.aead_id = "ChaCha20Poly1305"}
  /\ NoSession
  /\ sk = None /\ kp = None /\ heap = {}
  /\ InitRng
  /\ used = {}
  /\ fake_rng \in FreshPools
  /\ drawn = <<>>

\* seed(s)
Seed ==
  /\ \E s \in Seeds :
       /\ fake_rng' = seed(s)
       /\ last' = [Call("seed", "-", "Ok") EXCEPT !.xargs = Some(<<s>>)]
  /\ drawn' = <<>>
  /\ UNCHANGED <<session, sk, kp, heap, rngvars, used>>

\* try_fill_test_bytes(dest), called on the PRNG
TryFillTestBytes ==
  /\ \E n \in Requests :
       \E t \in {try_fill_test_bytes(fake_rng, n)} :
          /\ fake_rng' = t.fake_rng
          /\ drawn' = IF t.ok THEN t.dest \o drawn ELSE drawn
          /\ last' = [Call("try_fill_test_bytes", "-", t.e) EXCEPT
                        !.xargs = Some(<<n>>),
                        !.exp = IF t.ok THEN Some(t.dest) ELSE None]
  /\ UNCHANGED <<session, sk, kp, heap, rngvars, used>>

\* Hpke::random(len)
Random ==
  /\ \E n \in Requests :
       \E r \in {random(fake_rng, n)} :
          /\ fake_rng' = r.fake_rng
          /\ drawn' = IF r.res = "Ok" THEN r.out[1] \o drawn ELSE drawn
          /\ last' = [Call("random", "-", r.res) EXCEPT
                        !.xargs = Some(<<n>>), !.exp = r.out]
  /\ UNCHANGED <<session, sk, kp, heap, rngvars, used>>

NextPool ==
  \/ Seed
  \/ TryFillTestBytes
  \/ Random

SpecPool == InitPool /\ [][NextPool]_vars

\* C27: seed(s) makes s the pool.  A request for n bytes, made on the PRNG or through
\* Hpke::random, succeeds exactly when n is at most the number of bytes in the pool;
\* a successful request returns n bytes and removes them from the pool, so that the
\* pool followed by the bytes returned so far stays the same string and no byte of it
\* is returned twice; a failing one returns InsufficientRandomness and nothing else
\* and leaves the pool as it was.
PoolDraws ==
  [][/\ last'.op = "seed" => (fake_rng' = last'.xargs[1][1] /\ drawn' = <<>>)
     /\ last'.op \in {"try_fill_test_bytes", "random"} =>
          /\ last'.res = "Ok" <=> last'.xargs[1][1] <= Len(fake_rng)
          /\ last'.res = "Ok" =>
               /\ Len(last'.exp[1]) = last'.xargs[1][1]
               /\ fake_rng = fake_rng' \o last'.exp[1]
               /\ fake_rng' \o drawn' = fake_rng \o drawn
          /\ last'.res # "Ok" =>
               /\ last'.res = "InsufficientRandomness" /\ last'.exp = None
               /\ fake_rng' = fake_rng /\ drawn' = drawn]_vars

\* after seed(<<0, 1, 1>>) and a request that returned <<1, 1>>, Hpke::random(2) has
\* failed with one byte left in the pool
PoolDrawsWitness ==
  /\ last.op = "random" /\ last.xargs = Some(<<2>>)
  /\ last.res = "InsufficientRandomness"
  /\ fake_rng = <<0>> /\ drawn = <<1, 1>>

====
